---------------------------- MODULE Spec2Model ----------------------------
(***************************************************************************)
(* Model of the tool-calling agent loop of the course-material chatbot:    *)
(*   backend/ai_generator.py  AIGenerator.generate_response/_extract_text  *)
(*   backend/search_tools.py  CourseSearchTool, CourseOutlineTool,         *)
(*                            ToolManager                                  *)
(* and of the query operation that wraps them (RAGSystem.query), which is  *)
(* modelled from section 4.5 of the design document.                       *)
(*                                                                         *)
(* The language-model service, the vector store and the session manager   *)
(* are external: every answer they give is drawn from a bounded set.      *)
(***************************************************************************)
EXTENDS Integers, Sequences, FiniteSets, TLC

VARIABLES
    tools,          \* ToolManager.tools: registered (name, tool) pairs, in insertion order
    last_sources,   \* last_sources attribute of each tool object
    base_params,    \* AIGenerator.base_params, shared by all invocations
    gen,            \* per caller: the frame of its generate_response invocation
    qry,            \* per caller: the frame of its RAGSystem.query invocation
    started,        \* number of top-level operations started so far
    call,           \* the last direct call of a ToolManager method, with its outcome
    heap            \* the list objects the last_sources attributes refer to

vars == <<tools, last_sources, base_params, gen, qry, started, call, heap>>

(***************************************************************************)
(* Bounds of the model.                                                    *)
(***************************************************************************)
\* longest content-block list of one model response
MaxBlocks == 2
\* number of queries in one run
MaxQueries == 2

(***************************************************************************)
(* Optional values (Python None / a value).                                *)
(***************************************************************************)
None == [some |-> FALSE]
Some(v) == [some |-> TRUE, v |-> v]

\* Python truthiness of an Optional[str]
Truthy(o) == o.some /\ o.v # ""

\* Python truthiness of an Optional[list]
TruthyList(o) == o.some /\ o.v # <<>>

\* callers; the sequential specifications run caller 1 only
Procs == {1, 2}

(***************************************************************************)
(* search_tools.py: the two tools and the registry.                        *)
(***************************************************************************)
SEARCH == "search_course_content"
OUTLINE == "get_course_outline"

\* the two tool objects built at start-up
SearchTool == "CourseSearchTool"
OutlineTool == "CourseOutlineTool"

\* a second CourseSearchTool object, built over another store
SearchToolB == "CourseSearchTool#2"

\* the objects of class CourseSearchTool
SearchTools == {SearchTool, SearchToolB}

\* the tool objects that track sources
ToolObjs == {SearchTool, SearchToolB, OutlineTool}

\* Tool objects whose definition has no "name" key, or an empty name
NamelessTool == "NamelessTool"
EmptyNameTool == "EmptyNameTool"

\* every object a caller may hand to register_tool
AnyTools == ToolObjs \cup {NamelessTool, EmptyNameTool}

\* Tool.get_tool_definition(), reduced to its "name" key
get_tool_definition(t) ==
    IF t \in SearchTools THEN [name |-> SEARCH]
    ELSE IF t = OutlineTool THEN [name |-> OUTLINE]
    ELSE IF t = EmptyNameTool THEN [name |-> ""]
    ELSE [description |-> "a tool"]

\* tool_def.get("name")
DefName(tool_def) ==
    IF "name" \in DOMAIN tool_def THEN Some(tool_def.name) ELSE None

\* "sep".join(parts)
RECURSIVE Join(_, _)
Join(parts, sep) ==
    IF parts = <<>> THEN ""
    ELSE IF Len(parts) = 1 THEN parts[1]
    ELSE parts[1] \o sep \o Join(Tail(parts), sep)

\* SearchResults.is_empty()
is_empty(results) == results.documents = <<>>

\* meta.get('course_title', 'unknown')
MetaTitle(meta) ==
    IF "course_title" \in DOMAIN meta THEN meta.course_title ELSE "unknown"

\* meta.get('lesson_number')
MetaLesson(meta) ==
    IF "lesson_number" \in DOMAIN meta THEN Some(meta.lesson_number) ELSE None

\* the link chosen for one chunk (lines 108-113); b holds the store's answers
ChunkLink(b, meta) ==
    LET viaLesson == IF MetaLesson(meta).some THEN b.lesson_link ELSE None
    IN  IF ~Truthy(viaLesson) /\ MetaTitle(meta) # "unknown"
        THEN b.course_link ELSE viaLesson

\* the source entry of one chunk (lines 103-119)
ChunkSource(b, meta) ==
    LET source_text ==
            IF MetaLesson(meta).some
            THEN MetaTitle(meta) \o " - Lesson " \o ToString(MetaLesson(meta).v)
            ELSE MetaTitle(meta)
        link == ChunkLink(b, meta)
    IN  IF Truthy(link) THEN "[" \o source_text \o "](" \o link.v \o ")"
        ELSE source_text

\* the formatted text of one chunk (lines 97-101, 121)
ChunkText(doc, meta) ==
    LET header ==
            IF MetaLesson(meta).some
            THEN "[" \o MetaTitle(meta) \o " - Lesson "
                     \o ToString(MetaLesson(meta).v) \o "]"
            ELSE "[" \o MetaTitle(meta) \o "]"
    IN  header \o "\n" \o doc

\* zip(results.documents, results.metadata): the shorter length decides
ZipLen(results) ==
    IF Len(results.documents) <= Len(results.metadata)
    THEN Len(results.documents) ELSE Len(results.metadata)

\* seq without the repetitions of an entry, first occurrences kept
RECURSIVE Dedup(_)
Dedup(seq) ==
    IF seq = <<>> THEN <<>>
    ELSE LET d == Dedup(SubSeq(seq, 1, Len(seq) - 1))
             e == seq[Len(seq)]
         IN  IF \E k \in 1..Len(d) : d[k] = e THEN d ELSE Append(d, e)

\* a search tool that records every source once, however many chunks share it
format_results_Dedup(b) ==
    LET results == b.results
        n == ZipLen(results)
    IN  [raised |-> FALSE,
         value |-> Join([k \in 1..n |->
                            ChunkText(results.documents[k], results.metadata[k])],
                        "\n\n"),
         sources |-> Some(Dedup([k \in 1..n |-> ChunkSource(b, results.metadata[k])]))]

\* CourseSearchTool._format_results: the returned text and the new last_sources
format_results(b) ==
    LET results == b.results
        n == ZipLen(results)
    IN  [raised |-> FALSE,
         value |-> Join([k \in 1..n |->
                            ChunkText(results.documents[k], results.metadata[k])],
                        "\n\n"),
         sources |-> Some([k \in 1..n |-> ChunkSource(b, results.metadata[k])])]

\* the message of a search without matches (lines 78-83)
NoContentMessage(input) ==
    LET c == IF "course_name" \in DOMAIN input /\ input.course_name # ""
             THEN " in course '" \o input.course_name \o "'" ELSE ""
        l == IF "lesson_number" \in DOMAIN input /\ input.lesson_number # 0
             THEN " in lesson " \o ToString(input.lesson_number) ELSE ""
    IN  "No relevant content found" \o c \o l \o "."

\* a search tool that wraps the backend's error in a message of its own
CourseSearchTool_execute_Rewrap(input, b) ==
    IF b.exc.some
    THEN [raised |-> TRUE, value |-> b.exc.v, sources |-> None]
    ELSE IF Truthy(b.results.error)
    THEN [raised |-> FALSE, value |-> "Search failed: " \o b.results.error.v,
          sources |-> None]
    ELSE IF is_empty(b.results)
    THEN [raised |-> FALSE, value |-> NoContentMessage(input), sources |-> None]
    ELSE format_results(b)

\* CourseSearchTool.execute(query, course_name, lesson_number) against the store
\* answers b.  sources = None: last_sources is not assigned.
CourseSearchTool_execute(input, b) ==
    IF b.exc.some
    THEN [raised |-> TRUE, value |-> b.exc.v, sources |-> None]
    ELSE IF Truthy(b.results.error)
    THEN [raised |-> FALSE, value |-> b.results.error.v, sources |-> None]
    ELSE IF is_empty(b.results)
    THEN [raised |-> FALSE, value |-> NoContentMessage(input), sources |-> None]
    ELSE format_results(b)

\* the arguments CourseSearchTool.execute passes to store.search (lines 66-70);
\* a parameter the caller left out has its default, None
search_args(input) ==
    [query |-> input.query,
     course_name |-> IF "course_name" \in DOMAIN input
                     THEN Some(input.course_name) ELSE None,
     lesson_number |-> IF "lesson_number" \in DOMAIN input
                       THEN Some(input.lesson_number) ELSE None]

\* the link lookups made for one chunk (lines 109-113)
ChunkLookups(b, meta) ==
    LET viaLesson == IF MetaLesson(meta).some THEN b.lesson_link ELSE None
    IN  (IF MetaLesson(meta).some THEN <<"get_lesson_link">> ELSE <<>>)
        \o (IF ~Truthy(viaLesson) /\ MetaTitle(meta) # "unknown"
            THEN <<"get_course_link">> ELSE <<>>)

RECURSIVE Flatten(_)
Flatten(seqs) == IF seqs = <<>> THEN <<>> ELSE Head(seqs) \o Flatten(Tail(seqs))

\* the store methods one CourseSearchTool.execute calls, in order
CourseSearchTool_store_calls(input, b) ==
    <<"search">>
    \o (IF b.exc.some \/ Truthy(b.results.error) \/ is_empty(b.results) THEN <<>>
        ELSE Flatten([k \in 1..ZipLen(b.results) |->
                         ChunkLookups(b, b.results.metadata[k])]))

\* one line of the lesson list (lines 195-197)
LessonLine(lesson) ==
    LET lesson_num == IF "lesson_number" \in DOMAIN lesson
                      THEN ToString(lesson.lesson_number) ELSE "?"
        lesson_title == IF "lesson_title" \in DOMAIN lesson
                        THEN lesson.lesson_title ELSE "Untitled"
    IN  "  Lesson " \o lesson_num \o ": " \o lesson_title

\* an outline tool that emits the first lesson and summarizes the others
outline_parts_Summarized(outline) ==
    LET lessons == IF "lessons" \in DOMAIN outline THEN outline.lessons ELSE <<>>
        lesson_count == IF "lesson_count" \in DOMAIN outline
                        THEN outline.lesson_count ELSE 0
    IN  <<"Course: " \o outline.title,
          "Total Lessons: " \o ToString(lesson_count), "", "Lessons:">>
        \o (IF lessons = <<>> THEN <<>>
            ELSE IF Len(lessons) = 1 THEN <<LessonLine(lessons[1])>>
            ELSE <<LessonLine(lessons[1]),
                   "  ... and " \o ToString(Len(lessons) - 1) \o " more">>)

\* the list "parts" built by CourseOutlineTool._format_outline (lines 179-197)
outline_parts(outline) ==
    LET title == outline.title
        course_link == IF "course_link" \in DOMAIN outline
                       THEN Some(outline.course_link) ELSE None
        instructor == IF "instructor" \in DOMAIN outline
                      THEN outline.instructor ELSE "Unknown"
        lesson_count == IF "lesson_count" \in DOMAIN outline
                        THEN outline.lesson_count ELSE 0
        lessons == IF "lessons" \in DOMAIN outline THEN outline.lessons ELSE <<>>
        head == <<"Course: " \o title, "Instructor: " \o instructor>>
                \o (IF Truthy(course_link)
                    THEN <<"Course Link: " \o course_link.v>> ELSE <<>>)
                \o <<"Total Lessons: " \o ToString(lesson_count), "", "Lessons:">>
        body == [k \in 1..Len(lessons) |-> LessonLine(lessons[k])]
    IN  head \o body

\* an outline tool that records the bare title, never a link
format_outline_PlainSource(outline) ==
    [raised |-> FALSE,
     value |-> Join(outline_parts(outline), "\n"),
     sources |-> Some(<<outline.title>>)]

\* CourseOutlineTool._format_outline: the returned text and the new last_sources
format_outline(outline) ==
    LET title == outline.title
        course_link == IF "course_link" \in DOMAIN outline
                       THEN Some(outline.course_link) ELSE None
    IN  [raised |-> FALSE,
         value |-> Join(outline_parts(outline), "\n"),
         sources |-> Some(IF Truthy(course_link)
                          THEN <<"[" \o title \o "](" \o course_link.v \o ")">>
                          ELSE <<title>>)]

\* CourseOutlineTool.execute(course_name) against the store answer b
CourseOutlineTool_execute(input, b) ==
    IF b.exc.some
    THEN [raised |-> TRUE, value |-> b.exc.v, sources |-> None]
    ELSE IF ~b.outline.some
    THEN [raised |-> FALSE,
          value |-> "No course found matching '" \o input.course_name \o "'.",
          sources |-> None]
    ELSE format_outline(b.outline.v)

\* tools that catch a failure of their store and report it as text
Tool_execute_Swallow(t, input, b) ==
    IF b.exc.some
    THEN [raised |-> FALSE, value |-> "Search error: " \o b.exc.v, sources |-> None]
    ELSE IF t \in SearchTools THEN CourseSearchTool_execute(input, b)
    ELSE CourseOutlineTool_execute(input, b)

\* tool.execute(**kwargs) for either tool class
Tool_execute(t, input, b) ==
    IF t \in SearchTools THEN CourseSearchTool_execute(input, b)
    ELSE CourseOutlineTool_execute(input, b)

\* position of name in the registry, 0 when it is not registered
IndexOf(reg, name) ==
    IF \E k \in 1..Len(reg) : reg[k].name = name
    THEN CHOOSE k \in 1..Len(reg) : reg[k].name = name
    ELSE 0

\* ToolManager.register_tool raises ValueError: if not tool_name
register_tool_raises(t) == ~Truthy(DefName(get_tool_definition(t)))

\* a registry that stores a tool under whatever name its definition gives
register_tool_Unchecked(reg, t) ==
    LET d == DefName(get_tool_definition(t))
        name == IF d.some THEN d.v ELSE "None"
        k == IndexOf(reg, name)
    IN  IF k = 0 THEN Append(reg, [name |-> name, tool |-> t])
        ELSE [reg EXCEPT ![k] = [name |-> name, tool |-> t]]

\* a registry that keeps the tool registered first under a name
register_tool_KeepFirst(reg, t) ==
    IF register_tool_raises(t) THEN reg
    ELSE LET name == get_tool_definition(t).name
         IN  IF IndexOf(reg, name) = 0
             THEN Append(reg, [name |-> name, tool |-> t])
             ELSE reg

\* ToolManager.register_tool: self.tools after the call.  A dict assignment
\* keeps the position of an existing key and appends a new one; when the
\* call raises, the assignment is not reached
register_tool(reg, t) ==
    IF register_tool_raises(t) THEN reg
    ELSE LET name == get_tool_definition(t).name
             k == IndexOf(reg, name)
         IN  IF k = 0 THEN Append(reg, [name |-> name, tool |-> t])
             ELSE [reg EXCEPT ![k] = [name |-> name, tool |-> t]]

\* ToolManager.get_tool_definitions
get_tool_definitions(reg) ==
    [k \in 1..Len(reg) |-> get_tool_definition(reg[k].tool)]

\* a registry that raises KeyError for a name it does not hold
execute_tool_KeyError(reg, tool_name, input, b) ==
    IF IndexOf(reg, tool_name) = 0
    THEN [raised |-> TRUE, value |-> "KeyError: " \o tool_name,
          sources |-> None, tool |-> None]
    ELSE LET t == reg[IndexOf(reg, tool_name)].tool
             r == Tool_execute(t, input, b)
         IN  [raised |-> r.raised, value |-> r.value,
              sources |-> r.sources, tool |-> Some(t)]

\* ToolManager.execute_tool(tool_name, **kwargs): the outcome and the tool run
execute_tool(reg, tool_name, input, b) ==
    IF IndexOf(reg, tool_name) = 0
    THEN [raised |-> FALSE,
          value |-> "Tool '" \o tool_name \o "' not found",
          sources |-> None, tool |-> None]
    ELSE LET t == reg[IndexOf(reg, tool_name)].tool
             r == Tool_execute(t, input, b)
         IN  [raised |-> r.raised, value |-> r.value,
              sources |-> r.sources, tool |-> Some(t)]

\* tools that append the new entries to the ones they hold
SourcesAfter_Append(ls, r) ==
    IF r.tool.some /\ r.sources.some
    THEN [ls EXCEPT ![r.tool.v] = @ \o r.sources.v] ELSE ls

\* a tool whose execution clears the source sets of the other tools
SourcesAfter_ClearOthers(ls, r) ==
    IF r.tool.some /\ r.sources.some
    THEN [t \in DOMAIN ls |-> IF t = r.tool.v THEN r.sources.v ELSE <<>>]
    ELSE ls

\* the last_sources attributes after a dispatch with outcome r
SourcesAfter(ls, r) ==
    IF r.tool.some /\ r.sources.some
    THEN [ls EXCEPT ![r.tool.v] = r.sources.v] ELSE ls

\* a registry that merges the source sets of all its tools
RECURSIVE ConcatSources(_, _, _)
ConcatSources(reg, ls, k) ==
    IF k > Len(reg) THEN <<>>
    ELSE ls[reg[k].tool] \o ConcatSources(reg, ls, k + 1)

get_last_sources_Concat(reg, ls) == ConcatSources(reg, ls, 1)

\* a registry that returns the source set of the tool registered last
get_last_sources_Last(reg, ls) ==
    IF reg = <<>> THEN <<>> ELSE ls[reg[Len(reg)].tool]

\* ToolManager.get_last_sources
RECURSIVE FirstNonEmpty(_, _, _)
FirstNonEmpty(reg, ls, k) ==
    IF k > Len(reg) THEN <<>>
    ELSE IF ls[reg[k].tool] # <<>> THEN ls[reg[k].tool]
    ELSE FirstNonEmpty(reg, ls, k + 1)

get_last_sources(reg, ls) == FirstNonEmpty(reg, ls, 1)

\* a registry that clears the first registered tool only
reset_sources_FirstOnly(reg, ls) ==
    [t \in ToolObjs |->
        IF Len(reg) >= 1 /\ reg[1].tool = t THEN <<>> ELSE ls[t]]

\* ToolManager.reset_sources
reset_sources(reg, ls) ==
    [t \in ToolObjs |->
        IF \E k \in 1..Len(reg) : reg[k].tool = t THEN <<>> ELSE ls[t]]

(***************************************************************************)
(* The vector store's answers (external): bounded sets.                    *)
(***************************************************************************)
NoResults == [documents |-> <<>>, metadata |-> <<>>, error |-> None]

\* what store.search / get_lesson_link / get_course_link answer during one
\* CourseSearchTool.execute
SearchAnswers ==
    { [exc |-> Some("connection failed"), results |-> NoResults,
       lesson_link |-> None, course_link |-> None],
      [exc |-> None,
       results |-> [documents |-> <<>>, metadata |-> <<>>,
                    error |-> Some("Search error: store unavailable")],
       lesson_link |-> None, course_link |-> None],
      [exc |-> None, results |-> NoResults,
       lesson_link |-> None, course_link |-> None],
      [exc |-> None,
       results |-> [documents |-> <<"MCP is a protocol">>,
                    metadata |-> <<[course_title |-> "MCP Course",
                                    lesson_number |-> 1]>>,
                    error |-> None],
       lesson_link |-> Some("https://example.com/l1"), course_link |-> None] }

\* what store.get_course_outline answers during one CourseOutlineTool.execute
OutlineAnswers ==
    { [exc |-> Some("outline lookup failed"), outline |-> None],
      [exc |-> None, outline |-> None],
      [exc |-> None,
       outline |-> Some([title |-> "RAG Course",
                         course_link |-> "https://example.com/rag",
                         instructor |-> "Ada",
                         lesson_count |-> 2,
                         lessons |-> <<[lesson_number |-> 1, lesson_title |-> "Intro"],
                                       [lesson_number |-> 2, lesson_title |-> "Advanced"]>>])] }

\* the answers met by the direct invocations of generate_response: the store
\* fails or answers with content
GenAnswers ==
    [search |-> {b \in SearchAnswers : b.exc.some \/ ~is_empty(b.results)},
     outline |-> {b \in OutlineAnswers : b.exc.some \/ b.outline.some}]

\* a search that matches two chunks of one course, the second without a lesson
MoreSearchAnswers ==
    { [exc |-> None,
       results |-> [documents |-> <<"RAG retrieves", "RAG augments">>,
                    metadata |-> <<[course_title |-> "RAG Course",
                                    lesson_number |-> 2],
                                   [course_title |-> "RAG Course"]>>,
                    error |-> None],
       lesson_link |-> Some("https://example.com/l2"),
       course_link |-> Some("https://example.com/rag")] }

\* the answers met by the direct calls of the registry
ToolAnswers ==
    [search |-> SearchAnswers \cup MoreSearchAnswers, outline |-> OutlineAnswers]

\* the answers met by the queries: all of them
AllAnswers == [search |-> SearchAnswers, outline |-> OutlineAnswers]

\* further answers of store.search: an error reported together with documents,
\* two chunks of one lesson, a chunk of lesson 0 without links, a chunk whose
\* metadata names no course, more documents than metadata
EdgeSearchAnswers ==
    { [exc |-> None,
       results |-> [documents |-> <<"stale chunk">>,
                    metadata |-> <<[course_title |-> "MCP Course",
                                    lesson_number |-> 1]>>,
                    error |-> Some("No course found matching 'XYZ'")],
       lesson_link |-> Some("https://example.com/l1"), course_link |-> None],
      [exc |-> None,
       results |-> [documents |-> <<"MCP is a protocol", "MCP has servers">>,
                    metadata |-> <<[course_title |-> "MCP Course",
                                    lesson_number |-> 1],
                                   [course_title |-> "MCP Course",
                                    lesson_number |-> 1]>>,
                    error |-> None],
       lesson_link |-> Some("https://example.com/l1"), course_link |-> None],
      [exc |-> None,
       results |-> [documents |-> <<"Welcome to MCP">>,
                    metadata |-> <<[course_title |-> "MCP Course",
                                    lesson_number |-> 0]>>,
                    error |-> None],
       lesson_link |-> None, course_link |-> None],
      [exc |-> None,
       results |-> [documents |-> <<"orphan chunk">>,
                    metadata |-> <<[chunk_index |-> 7]>>,
                    error |-> None],
       lesson_link |-> None, course_link |-> Some("https://example.com/mcp")],
      [exc |-> None,
       results |-> [documents |-> <<"RAG retrieves", "RAG augments">>,
                    metadata |-> <<[course_title |-> "RAG Course"]>>,
                    error |-> None],
       lesson_link |-> None, course_link |-> Some("https://example.com/rag")] }

\* further answers of store.get_course_outline: a course without link and
\* instructor starting at lesson 0, a lesson count that differs from the lesson
\* list, an outline without lesson count and with an empty link, a course
\* without lessons
EdgeOutlineAnswers ==
    { [exc |-> None,
       outline |-> Some([title |-> "MCP Course",
                         lesson_count |-> 1,
                         lessons |-> <<[lesson_number |-> 0,
                                        lesson_title |-> "Welcome"]>>])],
      [exc |-> None,
       outline |-> Some([title |-> "RAG Course",
                         course_link |-> "https://example.com/rag",
                         instructor |-> "Ada",
                         lesson_count |-> 3,
                         lessons |-> <<[lesson_number |-> 1, lesson_title |-> "Intro"],
                                       [lesson_number |-> 2, lesson_title |-> "Advanced"]>>])],
      [exc |-> None,
       outline |-> Some([title |-> "MCP Course",
                         course_link |-> "",
                         instructor |-> "Bob",
                         lessons |-> <<[lesson_number |-> 1, lesson_title |-> "Intro"],
                                       [lesson_number |-> 2]>>])],
      [exc |-> None,
       outline |-> Some([title |-> "Empty Course",
                         course_link |-> "https://example.com/empty",
                         lesson_count |-> 0,
                         lessons |-> <<>>])] }

\* the answers met by the tools when they are run with every argument
FormatAnswers ==
    [search |-> SearchAnswers \cup MoreSearchAnswers \cup EdgeSearchAnswers,
     outline |-> OutlineAnswers \cup EdgeOutlineAnswers]

\* the store answers a dispatch of tool_name can meet, of the answers A
StoreAnswers(reg, tool_name, A) ==
    IF IndexOf(reg, tool_name) = 0 THEN {[exc |-> None]}
    ELSE IF reg[IndexOf(reg, tool_name)].tool \in SearchTools THEN A.search
    ELSE A.outline

(***************************************************************************)
(* The language-model service's responses (external): bounded sets.        *)
(***************************************************************************)
StopReasons == {"end_turn", "tool_use"}

\* what one content block can be: a text block, or a tool-use request naming
\* a registered tool or a tool nobody registered
BlockKinds == {"text", SEARCH, "lookup_glossary"}

KindSeqs == UNION {[1..n -> BlockKinds] : n \in 0..MaxBlocks}

\* the responses met by the direct invocations: any stop reason with any content
GenResponses == StopReasons \X KindSeqs

ToolNames == {SEARCH, OUTLINE}

\* tool-use contents asking each registered tool at most once, in either order
QueryKindSeqs ==
    {ks \in UNION {[1..n -> ToolNames] : n \in 1..Cardinality(ToolNames)} :
        \A i, j \in 1..Len(ks) : i # j => ks[i] # ks[j]}

\* the responses met by the queries: a text answer, or tool-use requests
QueryResponses ==
    {<<"end_turn", <<"text">>>>} \cup {<<"tool_use", ks>> : ks \in QueryKindSeqs}

\* the arguments the model passes to a tool
InputFor(name) ==
    IF name = OUTLINE THEN [course_name |-> "RAG"] ELSE [query |-> "What is MCP?"]

\* the arguments a caller may pass to the content search: the query alone or
\* with a course filter, a lesson filter or both
SearchInputs ==
    { [query |-> "What is MCP?"],
      [query |-> "What is MCP?", course_name |-> "MCP"],
      [query |-> "What is MCP?", course_name |-> ""],
      [query |-> "What is MCP?", lesson_number |-> 2],
      [query |-> "What is MCP?", lesson_number |-> 0],
      [query |-> "What is MCP?", course_name |-> "MCP", lesson_number |-> 2] }

\* the arguments a caller may pass to the outline lookup
OutlineInputs == {[course_name |-> "RAG"], [course_name |-> "XYZ"]}

\* the arguments a caller may pass with a tool name
ToolInputs(name) ==
    IF name = SEARCH THEN SearchInputs
    ELSE IF name = OUTLINE THEN OutlineInputs
    ELSE {InputFor(name)}

\* block j of the response to call n; the service gives every tool-use request
\* a fresh correlation id, every text block its own text
MkBlock(n, j, kind) ==
    IF kind = "text"
    THEN [type |-> "text", text |-> "answer " \o ToString(n) \o "." \o ToString(j)]
    ELSE [type |-> "tool_use",
          id |-> "toolu_" \o ToString(n) \o "_" \o ToString(j),
          name |-> kind, input |-> InputFor(kind)]

MkResponse(n, stop, kinds) ==
    [stop_reason |-> stop,
     content |-> [j \in 1..Len(kinds) |-> MkBlock(n, j, kinds[j])]]

(***************************************************************************)
(* ai_generator.py: AIGenerator.                                           *)
(***************************************************************************)
SYSTEM_PROMPT == "You are an AI assistant specialized in course materials"

MAX_TOOL_ROUNDS == 2

\* AIGenerator._extract_text
RECURSIVE FirstText(_, _)
FirstText(content, k) ==
    IF k > Len(content) THEN ""
    ELSE IF content[k].type = "text" THEN content[k].text
    ELSE FirstText(content, k + 1)

\* mutant: only the first block is looked at (response.content[0])
extract_text_FirstBlock(response) ==
    IF response.content # <<>> /\ response.content[1].type = "text"
    THEN response.content[1].text ELSE ""

extract_text(response) == FirstText(response.content, 1)

\* a scan that takes the last tool_use block after position k
NextToolUse_Last(content, k) ==
    IF \E j \in (k + 1)..Len(content) : content[j].type = "tool_use"
    THEN CHOOSE j \in (k + 1)..Len(content) :
            /\ content[j].type = "tool_use"
            /\ \A h \in (j + 1)..Len(content) : content[h].type # "tool_use"
    ELSE 0

\* index of the first tool_use block of content after position k, 0 if none
\* (the `for block in response.content: if block.type == "tool_use"` scan)
NextToolUse(content, k) ==
    IF \E j \in (k + 1)..Len(content) : content[j].type = "tool_use"
    THEN CHOOSE j \in (k + 1)..Len(content) :
            /\ content[j].type = "tool_use"
            /\ \A h \in (k + 1)..(j - 1) : content[h].type # "tool_use"
    ELSE 0

\* lines 68-72
SystemContent(conversation_history) ==
    IF Truthy(conversation_history)
    THEN SYSTEM_PROMPT \o "\n\nPrevious conversation:\n" \o conversation_history.v
    ELSE SYSTEM_PROMPT

\* lines 75-84: the call parameters built from base_params
ApiParams(bp, query, conversation_history, tls) ==
    LET messages == <<[role |-> "user", content |-> query]>>
        system == SystemContent(conversation_history)
    IN  IF TruthyList(tls)
        THEN [model |-> bp.model, temperature |-> bp.temperature,
              max_tokens |-> bp.max_tokens, messages |-> messages,
              system |-> system, tools |-> tls.v,
              tool_choice |-> [type |-> "auto"]]
        ELSE [model |-> bp.model, temperature |-> bp.temperature,
              max_tokens |-> bp.max_tokens, messages |-> messages,
              system |-> system]

IdleFrame == [pc |-> "idle"]

\* the exception of a failed messages.create call
ServiceError == "APIError"

\* mutant: the message history is an attribute of the generator, so a new
\* invocation goes on from the turns of an invocation still under way
NewFrame_SharedMessages(bp, query, conversation_history, tls, tool_manager) ==
    LET running == {q \in Procs : gen[q].pc \in {"create", "dispatch"}}
        shared == IF running = {} THEN <<>>
                  ELSE gen[CHOOSE q \in running : TRUE].api_params.messages
        ap == ApiParams(bp, query, conversation_history, tls)
    IN  [pc |-> "create",
         tools_arg |-> tls,
         tool_manager |-> tool_manager,
         api_params |-> [ap EXCEPT !.messages = shared \o @],
         response |-> None,
         round |-> 0,
         i |-> 0,
         tool_results |-> <<>>,
         tool_failed |-> FALSE,
         result |-> None,
         error |-> None,
         calls |-> <<>>,
         responses |-> <<>>,
         dispatched |-> <<>>]

\* the frame of generate_response on entry, about to make the initial call
NewFrame(bp, query, conversation_history, tls, tool_manager) ==
    [pc |-> "create",
     tools_arg |-> tls,
     tool_manager |-> tool_manager,
     api_params |-> ApiParams(bp, query, conversation_history, tls),
     response |-> None,
     round |-> 0,               \* tool rounds entered so far
     i |-> 0,                   \* position of the block being dispatched
     tool_results |-> <<>>,
     tool_failed |-> FALSE,
     result |-> None,           \* the string returned to the caller
     error |-> None,            \* the exception that left the invocation
     calls |-> <<>>,            \* the parameters of every messages.create call
     responses |-> <<>>,        \* every response received, in order
     dispatched |-> <<>>]       \* every execute_tool call and its outcome

\* the first text block of the responses, the earliest response first
RECURSIVE FirstTextOfAny(_, _)
FirstTextOfAny(responses, k) ==
    IF k > Len(responses) THEN ""
    ELSE IF \E j \in 1..Len(responses[k].content) :
               responses[k].content[j].type = "text"
    THEN extract_text(responses[k])
    ELSE FirstTextOfAny(responses, k + 1)

\* mutant: the answer is the first text the model produced in the invocation
\* (f.responses ends with response)
Return_EarliestText(f, response) ==
    [f EXCEPT !.pc = "returned", !.response = Some(response),
              !.result = Some(FirstTextOfAny(f.responses, 1))]

\* line 93/123/126: return self._extract_text(response)
Return(f, response) ==
    [f EXCEPT !.pc = "returned", !.response = Some(response),
              !.result = Some(extract_text(response))]

\* mutant: the follow-up call is built without the tool definitions
AppendResults_DropTools(f) ==
    LET q == [f EXCEPT !.api_params.messages =
                  IF f.tool_results # <<>>
                  THEN Append(@, [role |-> "user", content |-> f.tool_results])
                  ELSE @].api_params
    IN  [f EXCEPT !.pc = "create",
                  !.api_params = [k \in DOMAIN q \ {"tools", "tool_choice"} |-> q[k]]]

\* lines 114-116, then line 119 is next
AppendResults(f) ==
    [f EXCEPT !.pc = "create",
              !.api_params.messages =
                  IF f.tool_results # <<>>
                  THEN Append(@, [role |-> "user", content |-> f.tool_results])
                  ELSE @]

\* mutant: the assistant's tool-use turn is not appended to the history
StartRound_NoAssistantTurn(f, response) ==
    LET g == [f EXCEPT !.response = Some(response),
                       !.round = @ + 1,
                       !.tool_results = <<>>,
                       !.tool_failed = FALSE]
        j == NextToolUse(response.content, 0)
    IN  IF j = 0
        THEN [g EXCEPT !.pc = "create"]
        ELSE [g EXCEPT !.pc = "dispatch", !.i = j]

\* lines 95-101: enter a tool round for response, up to its first dispatch
StartRound(f, response) ==
    LET g == [f EXCEPT !.response = Some(response),
                       !.round = @ + 1,
                       !.api_params.messages =
                           Append(@, [role |-> "assistant",
                                      content |-> response.content]),
                       !.tool_results = <<>>,
                       !.tool_failed = FALSE]
        j == NextToolUse(response.content, 0)
    IN  IF j = 0 THEN AppendResults(g)
        ELSE [g EXCEPT !.pc = "dispatch", !.i = j]

\* mutant: the loop runs one round too many (range(MAX_TOOL_ROUNDS + 1))
AfterResponse_OffByOne(f, response) ==
    IF f.tool_failed THEN Return(f, response)
    ELSE IF f.round >= MAX_TOOL_ROUNDS + 1 THEN Return(f, response)
    ELSE IF response.stop_reason # "tool_use" \/ ~f.tool_manager.some
    THEN Return(f, response)
    ELSE StartRound(f, response)

\* mutant: the stop reason is not looked at when a dispatcher is present
AfterResponse_IgnoreStop(f, response) ==
    IF f.tool_failed THEN Return(f, response)
    ELSE IF f.round >= MAX_TOOL_ROUNDS THEN Return(f, response)
    ELSE IF ~f.tool_manager.some THEN Return(f, response)
    ELSE StartRound(f, response)

\* mutant: a tool-use response starts a round without a dispatcher too
AfterResponse_IgnoreDispatcher(f, response) ==
    IF f.tool_failed THEN Return(f, response)
    ELSE IF f.round >= MAX_TOOL_ROUNDS THEN Return(f, response)
    ELSE IF response.stop_reason # "tool_use" THEN Return(f, response)
    ELSE StartRound(f, response)

\* mutant: when the rounds are used up one more call is made before returning
AfterResponse_ExtraCall(f, response) ==
    IF f.tool_failed THEN Return(f, response)
    ELSE IF f.round >= MAX_TOOL_ROUNDS
    THEN (IF Len(f.calls) <= MAX_TOOL_ROUNDS + 1
          THEN [f EXCEPT !.pc = "create", !.response = Some(response)]
          ELSE Return(f, response))
    ELSE IF response.stop_reason # "tool_use" \/ ~f.tool_manager.some
    THEN Return(f, response)
    ELSE StartRound(f, response)

\* mutant: when the rounds are used up the invocation waits for ever
AfterResponse_Hang(f, response) ==
    IF f.tool_failed THEN Return(f, response)
    ELSE IF f.round >= MAX_TOOL_ROUNDS
    THEN [f EXCEPT !.pc = "blocked", !.response = Some(response)]
    ELSE IF response.stop_reason # "tool_use" \/ ~f.tool_manager.some
    THEN Return(f, response)
    ELSE StartRound(f, response)

\* mutant: the loop goes on after a round with a failed dispatch
AfterResponse_IgnoreFailure(f, response) ==
    IF f.round >= MAX_TOOL_ROUNDS THEN Return(f, response)
    ELSE IF response.stop_reason # "tool_use" \/ ~f.tool_manager.some
    THEN Return(f, response)
    ELSE StartRound(f, response)

\* the loop exit tests applied to a response just received:
\* line 122 (after a follow-up), the range(MAX_TOOL_ROUNDS) bound, line 92
AfterResponse(f, response) ==
    IF f.tool_failed THEN Return(f, response)
    ELSE IF f.round >= MAX_TOOL_ROUNDS THEN Return(f, response)
    ELSE IF response.stop_reason # "tool_use" \/ ~f.tool_manager.some
    THEN Return(f, response)
    ELSE StartRound(f, response)

\* mutant: a raised dispatch does not mark the round as failed
AfterDispatch_NoFailFlag(f, r) ==
    LET block == f.response.v.content[f.i]
        result == IF r.raised THEN "Tool execution error: " \o r.value
                  ELSE r.value
        g == [f EXCEPT !.tool_results =
                           Append(@, [type |-> "tool_result",
                                      tool_use_id |-> block.id,
                                      content |-> result]),
                       !.dispatched =
                           Append(@, [round |-> f.round, call |-> Len(f.calls),
                                      id |-> block.id,
                                      name |-> block.name, raised |-> r.raised,
                                      value |-> r.value, sources |-> r.sources])]
        j == NextToolUse(f.response.v.content, f.i)
    IN  IF j = 0 THEN AppendResults(g) ELSE [g EXCEPT !.i = j]

\* mutant: no try/except around execute_tool, its exception leaves the invocation
AfterDispatch_Uncaught(f, r) ==
    LET block == f.response.v.content[f.i]
        g == [f EXCEPT !.tool_results =
                           Append(@, [type |-> "tool_result",
                                      tool_use_id |-> block.id,
                                      content |-> r.value]),
                       !.dispatched =
                           Append(@, [round |-> f.round, call |-> Len(f.calls),
                                      id |-> block.id,
                                      name |-> block.name, raised |-> r.raised,
                                      value |-> r.value, sources |-> r.sources])]
        j == NextToolUse(f.response.v.content, f.i)
    IN  IF r.raised
        THEN [f EXCEPT !.pc = "raised", !.error = Some(r.value),
                       !.dispatched = g.dispatched]
        ELSE IF j = 0 THEN AppendResults(g) ELSE [g EXCEPT !.i = j]

\* mutant: each result is put in front of the earlier ones
AfterDispatch_Prepend(f, r) ==
    LET block == f.response.v.content[f.i]
        result == IF r.raised THEN "Tool execution error: " \o r.value
                  ELSE r.value
        g == [f EXCEPT !.tool_failed = @ \/ r.raised,
                       !.tool_results =
                           <<[type |-> "tool_result",
                              tool_use_id |-> block.id,
                              content |-> result]>> \o @,
                       !.dispatched =
                           Append(@, [round |-> f.round, call |-> Len(f.calls),
                                      id |-> block.id,
                                      name |-> block.name, raised |-> r.raised,
                                      value |-> r.value, sources |-> r.sources])]
        j == NextToolUse(f.response.v.content, f.i)
    IN  IF j = 0 THEN AppendResults(g) ELSE [g EXCEPT !.i = j]

\* mutant: a dispatch that found no tool marks the round as failed
AfterDispatch_NotFoundFails(f, r) ==
    LET block == f.response.v.content[f.i]
        result == IF r.raised THEN "Tool execution error: " \o r.value
                  ELSE r.value
        g == [f EXCEPT !.tool_failed = @ \/ r.raised \/ ~r.tool.some,
                       !.tool_results =
                           Append(@, [type |-> "tool_result",
                                      tool_use_id |-> block.id,
                                      content |-> result]),
                       !.dispatched =
                           Append(@, [round |-> f.round, call |-> Len(f.calls),
                                      id |-> block.id,
                                      name |-> block.name, raised |-> r.raised,
                                      value |-> r.value, sources |-> r.sources])]
        j == NextToolUse(f.response.v.content, f.i)
    IN  IF j = 0 THEN AppendResults(g) ELSE [g EXCEPT !.i = j]

\* mutant: a dispatch that raises ends the scan of the response's blocks
AfterDispatch_BreakOnRaise(f, r) ==
    LET block == f.response.v.content[f.i]
        result == IF r.raised THEN "Tool execution error: " \o r.value
                  ELSE r.value
        g == [f EXCEPT !.tool_failed = @ \/ r.raised,
                       !.tool_results =
                           Append(@, [type |-> "tool_result",
                                      tool_use_id |-> block.id,
                                      content |-> result]),
                       !.dispatched =
                           Append(@, [round |-> f.round, call |-> Len(f.calls),
                                      id |-> block.id,
                                      name |-> block.name, raised |-> r.raised,
                                      value |-> r.value, sources |-> r.sources])]
        j == IF r.raised THEN 0 ELSE NextToolUse(f.response.v.content, f.i)
    IN  IF j = 0 THEN AppendResults(g) ELSE [g EXCEPT !.i = j]

\* lines 103-112 for the block at f.i with dispatch outcome r, then the scan
\* moves to the next tool_use block or the round's results are appended
AfterDispatch(f, r) ==
    LET block == f.response.v.content[f.i]
        result == IF r.raised THEN "Tool execution error: " \o r.value
                  ELSE r.value
        g == [f EXCEPT !.tool_failed = @ \/ r.raised,
                       !.tool_results =
                           Append(@, [type |-> "tool_result",
                                      tool_use_id |-> block.id,
                                      content |-> result]),
                       !.dispatched =
                           Append(@, [round |-> f.round, call |-> Len(f.calls),
                                      id |-> block.id,
                                      name |-> block.name, raised |-> r.raised,
                                      value |-> r.value, sources |-> r.sources])]
        j == NextToolUse(f.response.v.content, f.i)
    IN  IF j = 0 THEN AppendResults(g) ELSE [g EXCEPT !.i = j]

(***************************************************************************)
(* Actions.                                                                *)
(***************************************************************************)
Free(p) == gen[p].pc \in {"idle", "returned", "raised"} /\ qry[p].pc \in {"idle", "done", "failed"}

\* the query frame when generate_response raised error: the exception leaves
\* RAGSystem.query, and the endpoint turns it into HTTP 500
QueryRaised(q, error) ==
    [q EXCEPT !.pc = "failed",
              !.http = IF q.via = "endpoint"
                       THEN Some([status |-> 500, detail |-> error])
                       ELSE None]

\* the tools argument a caller may pass
ToolsArgs == {None, Some(<<>>), Some(get_tool_definitions(tools))}

\* a direct call of AIGenerator.generate_response(query, history, tools, tool_manager)
GenerateResponse(p) ==
    /\ Free(p)
    /\ started = 0
    /\ \E tls \in ToolsArgs, tm \in {None, Some("ToolManager")} :
          gen' = [gen EXCEPT ![p] =
                     NewFrame(base_params, "What is MCP?", None, tls, tm)]
    /\ qry' = [qry EXCEPT ![p] = [pc |-> "idle"]]
    /\ started' = started + 1
    /\ UNCHANGED <<tools, last_sources, base_params, call, heap>>

\* the number the service gives the response to call n of caller p: no two
\* responses share their correlation ids
ResponseNo(p, n) == n + 10 * (p - 1)

\* client.messages.create(**api_params) returns a response (lines 89, 119)
CreateOk(p, R) ==
    /\ gen[p].pc = "create"
    /\ \E sk \in R :
          LET f == gen[p]
              n == Len(f.calls) + 1
              response == MkResponse(ResponseNo(p, n), sk[1], sk[2])
              g == [f EXCEPT !.calls = Append(@, f.api_params),
                             !.responses = Append(@, response)]
              h == AfterResponse(g, response)
          IN  /\ gen' = [gen EXCEPT ![p] = h]
              /\ qry' = IF qry[p].pc = "generating" /\ h.pc = "returned"
                        THEN [qry EXCEPT ![p].pc = "collect",
                                         ![p].response = h.result]
                        ELSE qry
    /\ UNCHANGED <<tools, last_sources, base_params, started, call, heap>>

\* a generate_response that answers with the empty string when the service fails
CreateFail_Swallow(p) ==
    /\ gen[p].pc = "create"
    /\ gen' = [gen EXCEPT ![p].pc = "returned",
                          ![p].result = Some(""),
                          ![p].calls = Append(@, gen[p].api_params)]
    /\ qry' = IF qry[p].pc = "generating"
              THEN [qry EXCEPT ![p].pc = "collect", ![p].response = Some("")]
              ELSE qry
    /\ UNCHANGED <<tools, last_sources, base_params, started, call, heap>>

\* client.messages.create(**api_params) raises: nothing catches it
CreateFail(p) ==
    /\ gen[p].pc = "create"
    /\ gen' = [gen EXCEPT ![p].pc = "raised",
                          ![p].error = Some(ServiceError),
                          ![p].calls = Append(@, gen[p].api_params)]
    /\ qry' = IF qry[p].pc = "generating"
              THEN [qry EXCEPT ![p] = QueryRaised(qry[p], ServiceError)] ELSE qry
    /\ UNCHANGED <<tools, last_sources, base_params, started, call, heap>>

\* tool_manager.execute_tool(block.name, **block.input) for the current block
Dispatch(p, A) ==
    /\ gen[p].pc = "dispatch"
    /\ LET f == gen[p]
           block == f.response.v.content[f.i]
       IN  \E b \in StoreAnswers(tools, block.name, A) :
              LET r == execute_tool(tools, block.name, block.input, b)
              IN  /\ gen' = [gen EXCEPT ![p] = AfterDispatch(f, r)]
                  /\ last_sources' = SourcesAfter(last_sources, r)
    /\ UNCHANGED <<tools, base_params, qry, started, call, heap>>

(***************************************************************************)
(* The query operation (RAGSystem.query), after design section 4.5: fetch  *)
(* the session's history when a session id is given, call                  *)
(* generate_response with the registry's definitions and the registry as   *)
(* dispatcher; when it has returned read the sources, then reset them,     *)
(* record the exchange in the session and return (answer, sources).  A     *)
(* failure of generate_response leaves the query at once.  The session     *)
(* manager is a collaborator: every call made to it is logged in sm_log,   *)
(* every call made to the registry's source operations in reg_log.         *)
(***************************************************************************)
\* what get_conversation_history may answer
HistoryAnswers == {None, Some("User: hi\nAssistant: hello")}

\* the id create_session returns
CreatedSessionId == "session_1"

\* the session ids a caller may pass: none, an empty one, a real one
SessionArgs == {None, Some(""), Some("s1")}

\* the question each caller asks
QueryText(p) == IF p = 1 THEN "What is MCP?" ELSE "Outline the RAG course"

\* the query's frame on entry of RAGSystem.query(query, session_id)
QueryFrame(query, via, request_sid, session_id, history, sm_log) ==
    [pc |-> "generating", via |-> via, query |-> query,
     request_sid |-> request_sid, session_id |-> session_id,
     history |-> history, response |-> None, sources |-> <<>>,
     reg_log |-> <<>>, sm_log |-> sm_log, result |-> None, http |-> None]

\* a query that asks for the history whether or not it was given a session id
HistoryCalls_Always(session_id, history) ==
    <<[op |-> "get_conversation_history",
       session_id |-> IF session_id.some THEN session_id.v ELSE "",
       ret |-> history]>>

\* history = session_manager.get_conversation_history(session_id), if session_id
HistoryCalls(session_id, history) ==
    IF Truthy(session_id)
    THEN <<[op |-> "get_conversation_history", session_id |-> session_id.v,
            ret |-> history]>>
    ELSE <<>>

\* a direct call of RAGSystem.query(query, session_id)
Query(p, S) ==
    /\ Free(p)
    /\ started < MaxQueries
    /\ \E session_id \in S :
       \E history \in (IF Truthy(session_id) THEN HistoryAnswers ELSE {None}) :
          /\ gen' = [gen EXCEPT ![p] =
                        NewFrame(base_params, QueryText(p), history,
                                 Some(get_tool_definitions(tools)), Some("ToolManager"))]
          /\ qry' = [qry EXCEPT ![p] =
                        QueryFrame(QueryText(p), "direct", session_id, session_id, history,
                                   HistoryCalls(session_id, history))]
    /\ started' = started + 1
    /\ UNCHANGED <<tools, last_sources, base_params, call, heap>>

\* an endpoint that opens a new session for every request
EndpointSession_AlwaysCreate(request_sid) ==
    [session_id |-> Some(CreatedSessionId),
     calls |-> <<[op |-> "create_session", ret |-> CreatedSessionId]>>]

\* session_id = request.session_id; if not session_id: session_id =
\* session_manager.create_session(): the id used and the calls made
EndpointSession(request_sid) ==
    IF Truthy(request_sid)
    THEN [session_id |-> request_sid, calls |-> <<>>]
    ELSE [session_id |-> Some(CreatedSessionId),
          calls |-> <<[op |-> "create_session", ret |-> CreatedSessionId]>>]

\* POST /api/query: create a session when the request carries none, then
\* call rag.query(request.query, session_id)
query_documents(p, S) ==
    /\ Free(p)
    /\ started < MaxQueries
    /\ \E request_sid \in S, history \in HistoryAnswers :
          LET session_id == EndpointSession(request_sid).session_id
              create == EndpointSession(request_sid).calls
          IN  /\ gen' = [gen EXCEPT ![p] =
                            NewFrame(base_params, QueryText(p), history,
                                     Some(get_tool_definitions(tools)),
                                     Some("ToolManager"))]
              /\ qry' = [qry EXCEPT ![p] =
                            QueryFrame(QueryText(p), "endpoint", request_sid, session_id, history,
                                       create \o HistoryCalls(session_id, history))]
    /\ started' = started + 1
    /\ UNCHANGED <<tools, last_sources, base_params, call, heap>>

\* a query that clears the sources before it reads them
CollectSources_ResetFirst(p) ==
    /\ qry[p].pc = "collect"
    /\ last_sources' = reset_sources(tools, last_sources)
    /\ qry' = [qry EXCEPT ![p].pc = "reset",
                          ![p].sources = get_last_sources(tools, last_sources'),
                          ![p].reg_log = <<"reset_sources", "get_last_sources">>]
    /\ UNCHANGED <<tools, base_params, gen, started, call, heap>>

\* sources = self.tool_manager.get_last_sources()
CollectSources(p) ==
    /\ qry[p].pc = "collect"
    /\ qry' = [qry EXCEPT ![p].pc = "reset",
                          ![p].sources = get_last_sources(tools, last_sources),
                          ![p].reg_log = Append(@, "get_last_sources")]
    /\ UNCHANGED <<tools, last_sources, base_params, gen, started, call, heap>>

\* a query that records the exchange twice
ExchangeCalls_Twice(q) ==
    IF Truthy(q.session_id)
    THEN LET e == [op |-> "add_exchange", session_id |-> q.session_id.v,
                   query |-> q.query, answer |-> q.response.v]
         IN  <<e, e>>
    ELSE <<>>

\* the session-manager calls at the end of a query: add_exchange if session_id
ExchangeCalls(q) ==
    IF Truthy(q.session_id)
    THEN <<[op |-> "add_exchange", session_id |-> q.session_id.v,
            query |-> q.query, answer |-> q.response.v]>>
    ELSE <<>>

\* the endpoint's reply to a query that returned (answer, sources)
QueryResponse(q) ==
    IF q.via = "endpoint"
    THEN Some([status |-> 200, answer |-> q.response.v, sources |-> q.sources,
               session_id |-> q.session_id.v])
    ELSE None

\* self.tool_manager.reset_sources(), add the exchange to the session, then
\* return (response, sources)
ResetSources(p) ==
    /\ qry[p].pc = "reset"
    /\ last_sources' = reset_sources(tools, last_sources)
    /\ qry' = [qry EXCEPT ![p].pc = "done",
                          ![p].reg_log = Append(@, "reset_sources"),
                          ![p].sm_log = @ \o ExchangeCalls(qry[p]),
                          ![p].result = Some(<<qry[p].response.v, qry[p].sources>>),
                          ![p].http = QueryResponse(qry[p])]
    /\ UNCHANGED <<tools, base_params, gen, started, call, heap>>

(***************************************************************************)
(* The lists behind the last_sources attributes.  A Python list is an      *)
(* object: get_last_sources hands out the list a tool holds, not a copy.   *)
(* heap.lists[id] is the content of list id, heap.attr[t] the list that    *)
(* t.last_sources refers to, heap.collected the list the last              *)
(* get_last_sources returned with the entries it had then.  Only the       *)
(* specification of the references steps the heap.                         *)
(***************************************************************************)
\* the number of lists one run may create, the tools' first lists included
MaxLists == 8

\* every tool starts with a list of its own (lines 25, 133)
InitHeap ==
    [lists |-> <<<<>>, <<>>, <<>>>>,
     attr |-> [t \in ToolObjs |->
                  IF t = SearchTool THEN 1 ELSE IF t = OutlineTool THEN 2 ELSE 3],
     collected |-> None]

\* self.last_sources = sources (lines 124, 201, 203): the attribute is bound
\* to the list the execution built
bind_sources(h, r) ==
    IF r.tool.some /\ r.sources.some
    THEN [h EXCEPT !.lists = Append(@, r.sources.v),
                   !.attr[r.tool.v] = Len(h.lists) + 1]
    ELSE h

\* the list get_last_sources returns: the one the first tool with entries
\* holds (line 239), 0 for the new empty list of line 240
RECURSIVE FirstTruthyRef(_, _, _)
FirstTruthyRef(reg, h, k) ==
    IF k > Len(reg) THEN 0
    ELSE IF h.lists[h.attr[reg[k].tool]] # <<>> THEN h.attr[reg[k].tool]
    ELSE FirstTruthyRef(reg, h, k + 1)

\* ToolManager.get_last_sources on the heap: the caller keeps the list returned
get_last_sources_ref(reg, h) ==
    LET ref == FirstTruthyRef(reg, h, 1)
    IN  IF ref = 0
        THEN [h EXCEPT !.lists = Append(@, <<>>),
                       !.collected = Some([ref |-> Len(h.lists) + 1,
                                           entries |-> <<>>])]
        ELSE [h EXCEPT !.collected = Some([ref |-> ref, entries |-> h.lists[ref]])]

\* a registry that empties the lists its tools hold (tool.last_sources.clear())
RECURSIVE ClearFrom(_, _, _)
ClearFrom(reg, h, k) ==
    IF k > Len(reg) THEN h
    ELSE ClearFrom(reg, [h EXCEPT !.lists[h.attr[reg[k].tool]] = <<>>], k + 1)

reset_sources_refs_InPlace(reg, h) == ClearFrom(reg, h, 1)

\* ToolManager.reset_sources on the heap: tool.last_sources = [] binds every
\* registered tool to a new empty list (lines 244-246)
RECURSIVE RebindFrom(_, _, _)
RebindFrom(reg, h, k) ==
    IF k > Len(reg) THEN h
    ELSE RebindFrom(reg,
                    [h EXCEPT !.lists = Append(@, <<>>),
                              !.attr[reg[k].tool] = Len(h.lists) + 1],
                    k + 1)

reset_sources_refs(reg, h) == RebindFrom(reg, h, 1)

\* no ToolManager method has been called directly
NoCall == [op |-> "none", prev |-> "none"]

\* the registry RAGSystem builds at start-up: search tool, then outline tool
StartupRegistry == register_tool(register_tool(<<>>, SearchTool), OutlineTool)

\* the registries of the two tools, in either registration order
Registries ==
    {StartupRegistry, register_tool(register_tool(<<>>, OutlineTool), SearchTool)}

Init ==
    /\ tools = StartupRegistry
    /\ last_sources = [t \in ToolObjs |-> <<>>]
    /\ base_params = [model |-> "claude-model", temperature |-> 0, max_tokens |-> 800]
    /\ gen = [p \in Procs |-> IdleFrame]
    /\ qry = [p \in Procs |-> [pc |-> "idle"]]
    /\ started = 0
    /\ call = NoCall
    /\ heap = InitHeap

Next ==
    \/ GenerateResponse(1)
    \/ CreateOk(1, GenResponses)
    \/ CreateFail(1)
    \/ Dispatch(1, GenAnswers)

\* direct, sequential invocations of generate_response
Spec == Init /\ [][Next]_vars

\* the responses of the fair runs: either stop reason with no block, a text
\* block, a request for a registered or an unregistered tool, or two blocks
LiveKindSeqs ==
    {<<>>, <<"text">>, <<SEARCH>>, <<"lookup_glossary">>,
     <<SEARCH, "text">>, <<SEARCH, SEARCH>>}

LiveResponses == StopReasons \X LiveKindSeqs

NextFair ==
    \/ GenerateResponse(1)
    \/ CreateOk(1, LiveResponses)
    \/ CreateFail(1)
    \/ Dispatch(1, GenAnswers)

\* every model-service call returns or raises, every tool dispatch returns
\* or raises
CallsComplete ==
    /\ WF_vars(CreateOk(1, LiveResponses) \/ CreateFail(1))
    /\ WF_vars(Dispatch(1, GenAnswers))

\* one direct invocation whose calls and dispatches complete
SpecFair == Init /\ [][NextFair]_vars /\ CallsComplete

\* the responses of a model that ends with a text answer: any content with a
\* tool-use stop reason, one text block with the end of the turn
RoundResponses == {<<"end_turn", <<"text">>>>} \cup ({"tool_use"} \X KindSeqs)

NextRounds ==
    \/ GenerateResponse(1)
    \/ CreateOk(1, RoundResponses)
    \/ CreateFail(1)
    \/ Dispatch(1, GenAnswers)

\* one direct invocation of generate_response at a time, with those responses
SpecRounds == Init /\ [][NextRounds]_vars

InitQuery ==
    /\ tools \in Registries
    /\ last_sources = [t \in ToolObjs |-> <<>>]
    /\ base_params = [model |-> "claude-model", temperature |-> 0, max_tokens |-> 800]
    /\ gen = [p \in Procs |-> IdleFrame]
    /\ qry = [p \in Procs |-> [pc |-> "idle"]]
    /\ started = 0
    /\ call = NoCall
    /\ heap = InitHeap

NextQuery ==
    \/ Query(1, {None})
    \/ CreateOk(1, QueryResponses)
    \/ CreateFail(1)
    \/ Dispatch(1, AllAnswers)
    \/ CollectSources(1)
    \/ ResetSources(1)

\* sequential queries against one registry
SpecQuery == InitQuery /\ [][NextQuery]_vars

\* the responses of the session runs: a direct answer or one search request
SessionResponses == {<<"end_turn", <<"text">>>>, <<"tool_use", <<SEARCH>>>>}

NextSession ==
    \/ Query(1, SessionArgs)
    \/ query_documents(1, SessionArgs)
    \/ CreateOk(1, SessionResponses)
    \/ CreateFail(1)
    \/ Dispatch(1, GenAnswers)
    \/ CollectSources(1)
    \/ ResetSources(1)

\* sequential queries, direct or through the endpoint, with and without a
\* session id, against the start-up registry
SpecSession == Init /\ [][NextSession]_vars

(***************************************************************************)
(* Two callers, each running one query against the same registry and the   *)
(* same generator, with no synchronization: their model-service calls,     *)
(* tool dispatches, source reads and source resets interleave freely.      *)
(***************************************************************************)
\* the responses of the concurrent runs: a text answer or one tool request
ConcurrentResponses ==
    {<<"end_turn", <<"text">>>>, <<"tool_use", <<SEARCH>>>>, <<"tool_use", <<OUTLINE>>>>}

\* caller p starts its query
StartQuery(p) ==
    /\ qry[p].pc = "idle"
    /\ Query(p, {None})

NextConcurrent ==
    \/ \E p \in Procs : StartQuery(p)
    \/ \E p \in Procs : CreateOk(p, ConcurrentResponses)
    \/ \E p \in Procs : CreateFail(p)
    \/ \E p \in Procs : Dispatch(p, GenAnswers)
    \/ \E p \in Procs : CollectSources(p)
    \/ \E p \in Procs : ResetSources(p)

SpecConcurrent == Init /\ [][NextConcurrent]_vars

(***************************************************************************)
(* Direct calls of the ToolManager's methods, in any order, starting from  *)
(* an empty registry.  call records the method called last, the method     *)
(* called before it, the arguments, the outcome and the registry and the   *)
(* source sets as they were when the call was made.                        *)
(***************************************************************************)
\* the names a caller may dispatch: the two tools' names and one that no
\* tool carries
DispatchNames == ToolNames \cup {"lookup_glossary"}

\* tool_manager.register_tool(tool)
RegisterTool ==
    /\ \E t \in AnyTools :
          /\ tools' = register_tool(tools, t)
          /\ call' = [op |-> "register_tool", prev |-> call.op, tool |-> t,
                      raised |-> register_tool_raises(t),
                      pre_tools |-> tools, pre_sources |-> last_sources]
    /\ UNCHANGED <<last_sources, base_params, gen, qry, started, heap>>

\* tool_manager.execute_tool(name, **input)
ExecuteTool ==
    /\ \E name \in DispatchNames :
       \E b \in StoreAnswers(tools, name, ToolAnswers) :
          LET r == execute_tool(tools, name, InputFor(name), b)
          IN  /\ last_sources' = SourcesAfter(last_sources, r)
              /\ call' = [op |-> "execute_tool", prev |-> call.op, name |-> name,
                          input |-> InputFor(name), store |-> b, ret |-> r,
                          pre_tools |-> tools, pre_sources |-> last_sources]
    /\ UNCHANGED <<tools, base_params, gen, qry, started, heap>>

\* tool_manager.get_last_sources()
GetLastSources ==
    /\ call' = [op |-> "get_last_sources", prev |-> call.op,
                ret |-> get_last_sources(tools, last_sources),
                pre_tools |-> tools, pre_sources |-> last_sources]
    /\ UNCHANGED <<tools, last_sources, base_params, gen, qry, started, heap>>

\* tool_manager.get_tool_definitions()
GetToolDefinitions ==
    /\ call' = [op |-> "get_tool_definitions", prev |-> call.op,
                ret |-> get_tool_definitions(tools),
                pre_tools |-> tools, pre_sources |-> last_sources]
    /\ UNCHANGED <<tools, last_sources, base_params, gen, qry, started, heap>>

\* tool_manager.reset_sources()
ResetSourcesCall ==
    /\ last_sources' = reset_sources(tools, last_sources)
    /\ call' = [op |-> "reset_sources", prev |-> call.op,
                pre_tools |-> tools, pre_sources |-> last_sources]
    /\ UNCHANGED <<tools, base_params, gen, qry, started, heap>>

InitTools ==
    /\ tools = <<>>
    /\ last_sources = [t \in ToolObjs |-> <<>>]
    /\ base_params = [model |-> "claude-model", temperature |-> 0, max_tokens |-> 800]
    /\ gen = [p \in Procs |-> IdleFrame]
    /\ qry = [p \in Procs |-> [pc |-> "idle"]]
    /\ started = 0
    /\ call = NoCall
    /\ heap = InitHeap

NextTools ==
    \/ RegisterTool
    \/ ExecuteTool
    \/ GetLastSources
    \/ GetToolDefinitions
    \/ ResetSourcesCall

\* any sequence of direct calls of the registry
SpecTools == InitTools /\ [][NextTools]_vars

(***************************************************************************)
(* Direct executions of the two start-up tools with every argument and     *)
(* every store answer.  call also records the store methods the tool       *)
(* called and the arguments of store.search.                               *)
(***************************************************************************)
\* the store methods one execute_tool calls, in order
store_calls(reg, tool_name, input, b) ==
    IF IndexOf(reg, tool_name) = 0 THEN <<>>
    ELSE IF reg[IndexOf(reg, tool_name)].tool \in SearchTools
    THEN CourseSearchTool_store_calls(input, b)
    ELSE <<"get_course_outline">>

\* tool_manager.execute_tool(name, **input), any input
ExecuteToolArgs ==
    /\ \E name \in DispatchNames :
       \E input \in ToolInputs(name) :
       \E b \in StoreAnswers(tools, name, FormatAnswers) :
          LET r == execute_tool(tools, name, input, b)
          IN  /\ last_sources' = SourcesAfter(last_sources, r)
              /\ call' = [op |-> "execute_tool", prev |-> call.op, name |-> name,
                          input |-> input, store |-> b, ret |-> r,
                          store_calls |-> store_calls(tools, name, input, b),
                          pre_tools |-> tools, pre_sources |-> last_sources]
    /\ UNCHANGED <<tools, base_params, gen, qry, started, heap>>

NextFormat ==
    \/ ExecuteToolArgs
    \/ GetLastSources
    \/ ResetSourcesCall

\* any sequence of executions on the start-up registry
SpecFormat == Init /\ [][NextFormat]_vars

(***************************************************************************)
(* Direct calls of the start-up registry with the lists tracked as         *)
(* objects: an execution, a collection of the sources, a reset.            *)
(***************************************************************************)
\* tool_manager.execute_tool(name, **input)
ExecuteRef ==
    /\ Len(heap.lists) + 1 <= MaxLists
    /\ \E name \in ToolNames :
       \E b \in StoreAnswers(tools, name, GenAnswers) :
          LET r == execute_tool(tools, name, InputFor(name), b)
          IN  /\ last_sources' = SourcesAfter(last_sources, r)
              /\ heap' = bind_sources(heap, r)
              /\ call' = [op |-> "execute_tool", prev |-> call.op]
    /\ UNCHANGED <<tools, base_params, gen, qry, started>>

\* sources = tool_manager.get_last_sources()
CollectRef ==
    /\ Len(heap.lists) + 1 <= MaxLists
    /\ heap' = get_last_sources_ref(tools, heap)
    /\ call' = [op |-> "get_last_sources", prev |-> call.op]
    /\ UNCHANGED <<tools, last_sources, base_params, gen, qry, started>>

\* tool_manager.reset_sources()
ResetRef ==
    /\ Len(heap.lists) + Len(tools) <= MaxLists
    /\ last_sources' = reset_sources(tools, last_sources)
    /\ heap' = reset_sources_refs(tools, heap)
    /\ call' = [op |-> "reset_sources", prev |-> call.op]
    /\ UNCHANGED <<tools, base_params, gen, qry, started>>

NextRefs ==
    \/ ExecuteRef
    \/ CollectRef
    \/ ResetRef

SpecRefs == Init /\ [][NextRefs]_vars


(***************************************************************************)
(* Vocabulary of the properties.                                           *)
(***************************************************************************)
\* the invocation the sequential specifications run
F == gen[1]

Invoked == F.pc # "idle"

\* the tool-use requests of a response, in order
ToolUses(response) == SelectSeq(response.content, LAMBDA blk : blk.type = "tool_use")

HasTextBlock(response) == \E k \in 1..Len(response.content) : response.content[k].type = "text"

\* s is the text of the first text-typed block of response, "" without one
IsFirstTextOf(s, response) ==
    LET c == response.content
    IN  IF HasTextBlock(response)
        THEN \E k \in 1..Len(c) :
                /\ c[k].type = "text"
                /\ \A h \in 1..(k - 1) : c[h].type # "text"
                /\ s = c[k].text
        ELSE s = ""

\* the response whose text a returned invocation gave back is the last received
LastResponse == F.responses[Len(F.responses)]

\* the correlation ids of the requests that were dispatched
DispatchedIds == {F.dispatched[k].id : k \in 1..Len(F.dispatched)}

(***************************************************************************)
(* C1: one generate_response invocation executes at most 2 tool rounds and *)
(* makes at most 3 model-service calls, and no tool-use request of the     *)
(* response received after the second round is ever dispatched.            *)
(***************************************************************************)
RoundLimit ==
    Invoked =>
        /\ F.round <= 2
        /\ Len(F.calls) <= 3
        /\ \A k \in 1..Len(F.dispatched) :
              /\ F.dispatched[k].round \in {1, 2}
              /\ F.dispatched[k].call \in {1, 2}
        /\ Len(F.responses) = 3 =>
              \A k \in 1..Len(F.responses[3].content) :
                 F.responses[3].content[k].type = "tool_use"
                    => F.responses[3].content[k].id \notin DispatchedIds

\* two rounds ran and the third response still asks for a tool
RoundLimitReached ==
    /\ Invoked
    /\ F.pc = "returned"
    /\ F.round = 2
    /\ Len(F.responses) = 3
    /\ F.responses[3].stop_reason = "tool_use"
    /\ ToolUses(F.responses[3]) # <<>>
    /\ Len(F.dispatched) >= 2

(***************************************************************************)
(* C2: a dispatch that raises yields the tool result "Tool execution       *)
(* error: <message>" for its request, sent in the follow-up call, and the  *)
(* loop ends with the very next response: its text is returned and no      *)
(* tool-use request of it is dispatched.                                   *)
(***************************************************************************)
FailedRoundEnds ==
    Invoked =>
        \A k \in 1..Len(F.dispatched) :
           LET d == F.dispatched[k]
           IN  (d.raised /\ Len(F.calls) > d.call) =>
                  LET sent == F.calls[d.call + 1].messages
                      turn == sent[Len(sent)]
                  IN  /\ turn.role = "user"
                      /\ \E j \in 1..Len(turn.content) :
                            /\ turn.content[j].type = "tool_result"
                            /\ turn.content[j].tool_use_id = d.id
                            /\ turn.content[j].content
                                  = "Tool execution error: " \o d.value
                      /\ Len(F.calls) = d.call + 1
                      /\ F.pc \in {"returned", "raised"}
                      /\ \A h \in 1..Len(F.dispatched) : F.dispatched[h].call <= d.call
                      /\ F.pc = "returned" =>
                            /\ Len(F.responses) = d.call + 1
                            /\ IsFirstTextOf(F.result.v, F.responses[d.call + 1])

\* a first-round dispatch raised and the next response, which asks for a tool
\* again, ended the invocation
FailedRoundEnded ==
    /\ Invoked
    /\ F.pc = "returned"
    /\ Len(F.responses) = 2
    /\ \E k \in 1..Len(F.dispatched) : F.dispatched[k].raised /\ F.dispatched[k].round = 1
    /\ F.responses[2].stop_reason = "tool_use"
    /\ ToolUses(F.responses[2]) # <<>>
    /\ HasTextBlock(F.responses[2])

(***************************************************************************)
(* C3: no exception of a tool dispatch leaves generate_response: the only  *)
(* exception that does is a model-service failure, and an invocation whose *)
(* model-service calls all succeed ends by returning a string.             *)
(***************************************************************************)
DispatchErrorsContained ==
    Invoked =>
        /\ F.pc = "raised" =>
              /\ F.error = Some(ServiceError)
              /\ Len(F.calls) = Len(F.responses) + 1
        /\ F.pc = "returned" => F.result.some /\ ~F.error.some
        /\ (F.pc \in {"create", "dispatch"}) => (~F.result.some /\ ~F.error.some)
        /\ (F.pc = "dispatch") => ENABLED Dispatch(1, GenAnswers)
        /\ (F.pc = "create") => ENABLED CreateOk(1, GenResponses)

\* a dispatch raised and the invocation returned a string all the same
DispatchErrorSurvived ==
    /\ Invoked
    /\ F.pc = "returned"
    /\ F.result.some
    /\ \E k \in 1..Len(F.dispatched) : F.dispatched[k].raised

(***************************************************************************)
(* C4: when the first response is terminal (its stop reason is not         *)
(* tool-use), exactly one model-service call is made, no tool is           *)
(* dispatched even with tools and a dispatcher supplied, and the text of   *)
(* that response is returned unchanged.                                    *)
(***************************************************************************)
DirectAnswer ==
    (Invoked /\ Len(F.responses) >= 1 /\ F.responses[1].stop_reason # "tool_use") =>
        /\ F.pc = "returned"
        /\ Len(F.calls) = 1
        /\ Len(F.responses) = 1
        /\ F.dispatched = <<>>
        /\ IsFirstTextOf(F.result.v, F.responses[1])

\* a direct answer although tools and a dispatcher were supplied and the
\* response even holds a tool-use block
DirectAnswerGiven ==
    /\ Invoked
    /\ F.pc = "returned"
    /\ F.tool_manager.some
    /\ TruthyList(F.tools_arg)
    /\ F.responses[1].stop_reason # "tool_use"
    /\ ToolUses(F.responses[1]) # <<>>
    /\ HasTextBlock(F.responses[1])


(***************************************************************************)
(* C5, as claimed: every model-service call of an invocation includes the  *)
(* tool definitions parameter whenever a dispatcher was supplied.          *)
(***************************************************************************)
ToolsSentWheneverDispatcher ==
    (Invoked /\ F.tool_manager.some) =>
        \A k \in 1..Len(F.calls) : "tools" \in DOMAIN F.calls[k]

(***************************************************************************)
(* C5, amended: every model-service call of an invocation, the initial one *)
(* and every follow-up, includes the tool definitions parameter exactly    *)
(* when a non-empty tools list was passed to the invocation, and then it   *)
(* is that list; whether a dispatcher was supplied plays no part.          *)
(***************************************************************************)
ToolsSentWheneverGiven ==
    Invoked =>
        \A k \in 1..Len(F.calls) :
           /\ ("tools" \in DOMAIN F.calls[k]) <=> TruthyList(F.tools_arg)
           /\ ("tools" \in DOMAIN F.calls[k]) =>
                 /\ F.calls[k].tools = F.tools_arg.v
                 /\ F.calls[k].tool_choice = [type |-> "auto"]

\* three calls were made for an invocation that was given tools
ToolsSentThrice ==
    /\ Invoked
    /\ Len(F.calls) = 3
    /\ TruthyList(F.tools_arg)
    /\ F.tool_manager.some

TurnsOfRound(response) == IF ToolUses(response) # <<>> THEN 2 ELSE 1

RECURSIVE TurnsAfter(_, _)
TurnsAfter(responses, k) ==
    IF k = 0 THEN 1 ELSE TurnsAfter(responses, k - 1) + TurnsOfRound(responses[k])

DispatchesOf(n) == SelectSeq(F.dispatched, LAMBDA d : d.call = n)

\* the string a dispatch hands to the model
ResultString(d) == IF d.raised THEN "Tool execution error: " \o d.value ELSE d.value

ResultsMatchRequests ==
    Invoked =>
        \A k \in 2..Len(F.calls) :
           LET requests == ToolUses(F.responses[k - 1])
               sent == F.calls[k].messages
               turn == sent[Len(sent)]
               made == DispatchesOf(k - 1)
           IN  requests # <<>> =>
                  /\ turn.role = "user"
                  /\ Len(turn.content) = Len(requests)
                  /\ Len(made) = Len(requests)
                  /\ \A j \in 1..Len(requests) :
                        /\ turn.content[j].type = "tool_result"
                        /\ turn.content[j].tool_use_id = requests[j].id
                        /\ made[j].id = requests[j].id
                        /\ made[j].name = requests[j].name
                        /\ turn.content[j].content = ResultString(made[j])

\* a round with two requests whose dispatches gave different strings
TwoResultsSent ==
    /\ Invoked
    /\ Len(F.calls) >= 2
    /\ Len(ToolUses(F.responses[1])) = 2
    /\ LET sent == F.calls[2].messages
           turn == sent[Len(sent)]
       IN  /\ turn.role = "user"
           /\ Len(turn.content) = 2
           /\ turn.content[1].content # turn.content[2].content

ReturnsFirstText ==
    (Invoked /\ F.pc = "returned") =>
        /\ F.result.some
        /\ F.response = Some(LastResponse)
        /\ IsFirstTextOf(F.result.v, LastResponse)

\* the exit after the round limit, from a response with a tool-use block
\* before its text block
FirstTextAfterToolUse ==
    /\ Invoked
    /\ F.pc = "returned"
    /\ F.round = 2
    /\ ~F.tool_failed
    /\ Len(F.responses) = 3
    /\ Len(LastResponse.content) = 2
    /\ LastResponse.content[1].type = "tool_use"
    /\ LastResponse.content[2].type = "text"
    /\ F.result.v = LastResponse.content[2].text


(***************************************************************************)
(* Vocabulary of the properties of queries.                                *)
(***************************************************************************)
Q == qry[1]

\* the source entries the tool executions of the current query assigned
ProducedSources ==
    UNION {{F.dispatched[k].sources.v[j] : j \in 1..Len(F.dispatched[k].sources.v)} :
              k \in {h \in 1..Len(F.dispatched) : F.dispatched[h].sources.some}}

(***************************************************************************)
(* C10: in any sequence of sequential queries against one registry,        *)
(* queries ended by a model-service failure after a tool ran included, the *)
(* source list a query returns holds only entries produced by tool         *)
(* executions of that same query, and is empty when no tool execution of   *)
(* the query produced sources.                                             *)
(***************************************************************************)
SourcesFromOwnQuery ==
    Q.pc = "done" =>
        /\ \A k \in 1..Len(Q.sources) : Q.sources[k] \in ProducedSources
        /\ ProducedSources = {} => Q.sources = <<>>


\* the registered tool objects
Registered == {tools[k].tool : k \in 1..Len(tools)}

\* the source sets the registered tools hold
HeldSets == {last_sources[t] : t \in Registered} \ {<<>>}

(***************************************************************************)
(* C11: in every query whose generate_response call completes, the query   *)
(* reads the registry's sources exactly once and resets them exactly once; *)
(* the read comes after generate_response has returned and before the      *)
(* reset, so the sources the query returns are the ones the registry holds *)
(* at the end of the query's tool executions, and the registry holds none  *)
(* once the query has returned.                                            *)
(***************************************************************************)
ReadThenReset ==
    /\ Q.pc = "generating" => Q.reg_log = <<>>
    /\ Q.pc = "collect" => F.pc = "returned" /\ Q.reg_log = <<>>
    /\ Q.pc = "reset" =>
          /\ F.pc = "returned"
          /\ Q.reg_log = <<"get_last_sources">>
          /\ IF HeldSets = {} THEN Q.sources = <<>> ELSE Q.sources \in HeldSets
    /\ Q.pc = "done" =>
          /\ F.pc = "returned"
          /\ Q.reg_log = <<"get_last_sources", "reset_sources">>
          /\ Q.result = Some(<<F.result.v, Q.sources>>)
          /\ HeldSets = {}

\* a query has returned the sources its tools produced after two rounds
SourcesReadThenReset ==
    /\ Q.pc = "done"
    /\ Q.sources # <<>>
    /\ Len(F.dispatched) >= 2
    /\ Q.reg_log = <<"get_last_sources", "reset_sources">>

(***************************************************************************)
(* Vocabulary of the properties of the registry's direct calls.            *)
(***************************************************************************)
\* the last call was execute_tool and it ran the tool object t
Executed(t) == call.op = "execute_tool" /\ call.ret.tool = Some(t)

\* the positions of the registry whose tool holds a non-empty source set
Holders == {k \in 1..Len(tools) : last_sources[tools[k].tool] # <<>>}

(***************************************************************************)
(* C12: from any registry state, reset_sources leaves the source set of    *)
(* every registered tool empty, and a get_last_sources call that follows   *)
(* it immediately returns the empty sequence.                              *)
(***************************************************************************)
ResetThenGetIsEmpty ==
    /\ call.op = "reset_sources" =>
          /\ \A k \in 1..Len(tools) : last_sources[tools[k].tool] = <<>>
          /\ tools = call.pre_tools
    /\ (call.op = "get_last_sources" /\ call.prev = "reset_sources") =>
          call.ret = <<>>

\* reset_sources was called while both registered tools held sources
ResetOfTwoHolders ==
    /\ call.op = "reset_sources"
    /\ Len(tools) = 2
    /\ \A k \in 1..2 : call.pre_sources[tools[k].tool] # <<>>

(***************************************************************************)
(* C13: execute_tool with a name that is not registered returns the string *)
(* "Tool '<name>' not found", does not raise, runs no tool and leaves the  *)
(* registry and every tool's source set as they were.                      *)
(***************************************************************************)
UnknownNameSentinel ==
    (/\ call.op = "execute_tool"
     /\ \A k \in 1..Len(call.pre_tools) : call.pre_tools[k].name # call.name) =>
        /\ ~call.ret.raised
        /\ call.ret.value = "Tool '" \o call.name \o "' not found"
        /\ call.ret.tool = None
        /\ tools = call.pre_tools
        /\ last_sources = call.pre_sources

\* the search tool's name was dispatched to a registry holding only the
\* outline tool, whose source set was not empty
UnknownNameDispatched ==
    /\ call.op = "execute_tool"
    /\ call.name = SEARCH
    /\ Len(call.pre_tools) = 1
    /\ call.pre_tools[1].name = OUTLINE
    /\ call.pre_sources[OutlineTool] # <<>>
    /\ call.ret.value = "Tool 'search_course_content' not found"

(***************************************************************************)
(* C14: get_last_sources returns the source set of exactly one tool, the   *)
(* first in registration order whose set is not empty, and the empty       *)
(* sequence when every registered tool's set is empty; it changes nothing. *)
(***************************************************************************)
FirstHolderReturned ==
    call.op = "get_last_sources" =>
        /\ tools = call.pre_tools
        /\ last_sources = call.pre_sources
        /\ IF Holders = {} THEN call.ret = <<>>
           ELSE LET first == CHOOSE k \in Holders : \A h \in Holders : k <= h
                IN  call.ret = last_sources[tools[first].tool]

\* the outline tool was registered first, both tools hold different sources
\* and the outline tool's set was returned
FirstOfTwoHolders ==
    /\ call.op = "get_last_sources"
    /\ Len(tools) = 2
    /\ tools[1].tool = OutlineTool
    /\ Holders = {1, 2}
    /\ last_sources[SearchTool] # last_sources[OutlineTool]
    /\ call.ret = last_sources[OutlineTool]

\* the dispatches of the current invocation that assigned a non-empty source set
Producing ==
    {k \in 1..Len(F.dispatched) :
        F.dispatched[k].sources.some /\ F.dispatched[k].sources.v # <<>>}

(***************************************************************************)
(* C15: when two different registered tools have both run and produced     *)
(* non-empty sources during one query, the registry's last sources are the *)
(* ones of the tool that ran most recently, whatever the registration      *)
(* order and the execution order.                                          *)
(***************************************************************************)
MostRecentSourcesSurface ==
    (/\ Q.pc \in {"generating", "collect", "reset"}
     /\ \E j, k \in Producing : F.dispatched[j].name # F.dispatched[k].name) =>
        LET latest == CHOOSE k \in Producing : \A j \in Producing : j <= k
        IN  get_last_sources(tools, last_sources) = F.dispatched[latest].sources.v

(***************************************************************************)
(* C16: an execution of a tool that finds something (a search with         *)
(* matches, an outline lookup that finds a course) overwrites the tool's   *)
(* source set with the entries of that execution alone, one per formatted  *)
(* chunk or one for the outline; an execution with zero matches, with a    *)
(* backend-reported error, with no matching course or ended by an          *)
(* exception leaves the set as it was; no other tool's set changes.        *)
(***************************************************************************)
SourcesOverwrittenOnSuccess ==
    \A t \in ToolObjs :
        Executed(t) =>
            LET b == call.store
                found == IF b.exc.some THEN 0
                         ELSE IF t = OutlineTool
                         THEN (IF b.outline.some THEN 1 ELSE 0)
                         ELSE IF b.results.error.some THEN 0
                         ELSE ZipLen(b.results)
            IN  /\ \A u \in ToolObjs \ {t} : last_sources[u] = call.pre_sources[u]
                /\ IF found > 0
                   THEN /\ last_sources[t] = call.ret.sources.v
                        /\ Len(last_sources[t]) = found
                   ELSE last_sources[t] = call.pre_sources[t]

\* as claimed: after every execution the set holds that execution's entries only
SourcesOfLastExecutionOnly ==
    \A t \in ToolObjs :
        Executed(t) =>
            last_sources[t] = IF call.ret.sources.some THEN call.ret.sources.v
                              ELSE <<>>

\* a search with two matches replaced the one entry of an earlier search
SourcesReplaced ==
    /\ Executed(SearchTool)
    /\ Len(call.pre_sources[SearchTool]) = 1
    /\ Len(last_sources[SearchTool]) = 2
    /\ \A k \in 1..2 : last_sources[SearchTool][k] # call.pre_sources[SearchTool][1]

(***************************************************************************)
(* Vocabulary of the properties of sessions.                               *)
(***************************************************************************)
\* the positions of the current query's session-manager calls of method op
SessionCalls(op) == {k \in 1..Len(Q.sm_log) : Q.sm_log[k].op = op}

\* the current query is running or over
Querying == Q.pc # "idle"

(***************************************************************************)
(* C17: a query request that carries no session id (none, or an empty one) *)
(* makes the endpoint call create_session exactly once, and the id         *)
(* returned by it is the one the query runs with and the one in the reply; *)
(* a request that carries a session id makes no create_session call, and   *)
(* its id is the one the query runs with and the one in the reply.         *)
(***************************************************************************)
SessionCreatedWhenAbsent ==
    (Querying /\ Q.via = "endpoint") =>
        /\ IF Truthy(Q.request_sid)
           THEN /\ SessionCalls("create_session") = {}
                /\ Q.session_id = Q.request_sid
           ELSE /\ SessionCalls("create_session") = {1}
                /\ Q.session_id = Some(Q.sm_log[1].ret)
        /\ \A k \in SessionCalls("get_conversation_history")
                      \cup SessionCalls("add_exchange") :
              Q.sm_log[k].session_id = Q.session_id.v
        /\ Q.pc = "done" => Q.http.v.session_id = Q.session_id.v

\* a request without a session id was answered with the created session's id
SessionCreatedAndReturned ==
    /\ Q.pc = "done"
    /\ Q.via = "endpoint"
    /\ Q.request_sid = None
    /\ Q.sm_log[1] = [op |-> "create_session", ret |-> "session_1"]
    /\ Q.http.v.status = 200
    /\ Q.http.v.session_id = "session_1"

(***************************************************************************)
(* C18: a query made with a session id that completes calls add_exchange   *)
(* exactly once, after the answer has been produced and as its last call   *)
(* of the session manager, with that session id, the query as the user     *)
(* gave it and the very answer string it returns; no add_exchange is made  *)
(* before generate_response has returned.                                  *)
(***************************************************************************)
ExchangeRecordedOnce ==
    /\ (Q.pc = "done" /\ Truthy(Q.session_id)) =>
          /\ SessionCalls("add_exchange") = {Len(Q.sm_log)}
          /\ Q.sm_log[Len(Q.sm_log)] =
                [op |-> "add_exchange", session_id |-> Q.session_id.v,
                 query |-> F.calls[1].messages[1].content,
                 answer |-> Q.result.v[1]]
          /\ Q.result.v[1] = F.result.v
    /\ Q.pc \in {"generating", "collect", "reset", "failed"} =>
          SessionCalls("add_exchange") = {}

\* a direct query with session id s1 that used a tool recorded its exchange
ExchangeRecorded ==
    /\ Q.pc = "done"
    /\ Q.via = "direct"
    /\ Q.session_id = Some("s1")
    /\ Len(F.dispatched) >= 1
    /\ Q.sm_log[Len(Q.sm_log)].op = "add_exchange"
    /\ Q.sm_log[Len(Q.sm_log)].answer = "answer 2.1"

(***************************************************************************)
(* C19: the query operation invoked without a session id makes no call of  *)
(* the session manager at all, neither get_conversation_history nor        *)
(* add_exchange, whatever the course of the query.                         *)
(***************************************************************************)
NoSessionNoSessionCalls ==
    (Querying /\ Q.via = "direct" /\ ~Truthy(Q.session_id)) =>
        /\ Q.sm_log = <<>>
        /\ Q.history = None

\* a direct query without a session id has completed after a tool ran
QueryWithoutSessionDone ==
    /\ Q.pc = "done"
    /\ Q.via = "direct"
    /\ Q.session_id = None
    /\ Len(F.dispatched) >= 1
    /\ Q.sm_log = <<>>

(***************************************************************************)
(* C20: once a model-service call of an invocation has failed, be it the   *)
(* first call or a follow-up, generate_response has raised the service's   *)
(* error without a result, the failed call is its last model-service call, *)
(* no tool was dispatched after it, and the query has failed: its caller   *)
(* has no (answer, sources) result, and the endpoint answers HTTP 500.     *)
(***************************************************************************)
ServiceFailureIsFatal ==
    (F.pc # "idle" /\ Len(F.calls) > Len(F.responses)) =>
        /\ F.pc = "raised"
        /\ F.error = Some("APIError")
        /\ F.result = None
        /\ Len(F.calls) = Len(F.responses) + 1
        /\ \A k \in 1..Len(F.dispatched) : F.dispatched[k].call <= Len(F.responses)
        /\ Q.pc = "failed"
        /\ Q.result = None
        /\ Q.reg_log = <<>>
        /\ Q.http = IF Q.via = "endpoint"
                    THEN Some([status |-> 500, detail |-> "APIError"])
                    ELSE None

\* the follow-up call failed after a tool had run, in a query of the endpoint
FollowUpCallFailed ==
    /\ F.pc = "raised"
    /\ Len(F.calls) = 2
    /\ Len(F.dispatched) = 1
    /\ Q.pc = "failed"
    /\ Q.via = "endpoint"
    /\ Q.http.v.status = 500

(***************************************************************************)
(* C23: register_tool raises exactly when the tool's definition has no     *)
(* name, be it missing or empty, and a call that raises leaves the         *)
(* registry's mapping and the source sets as they were.                    *)
(***************************************************************************)
NamelessRegistrationRaises ==
    call.op = "register_tool" =>
        LET tool_def == get_tool_definition(call.tool)
            nameless == "name" \notin DOMAIN tool_def \/ tool_def.name = ""
        IN  /\ call.raised <=> nameless
            /\ nameless => /\ tools = call.pre_tools
                           /\ last_sources = call.pre_sources

\* a tool without a name was refused by a registry that held two tools
NamelessToolRefused ==
    /\ call.op = "register_tool"
    /\ call.tool = NamelessTool
    /\ call.raised
    /\ Len(call.pre_tools) = 2
    /\ tools = call.pre_tools

(***************************************************************************)
(* C24: the registry holds one tool per name.  Every successful            *)
(* register_tool call puts its tool under the tool's name, replacing in    *)
(* place the tool registered under that name before or else adding the     *)
(* name at the end, and changes no other entry; so each name maps to the   *)
(* tool registered for it last, and the names stand in the order of their  *)
(* first registration.  execute_tool runs the tool the registry holds      *)
(* under the name, and get_tool_definitions returns one definition per     *)
(* name in the registry's order.                                           *)
(***************************************************************************)
LastRegistrationWins ==
    /\ \A i, j \in 1..Len(tools) : i # j => tools[i].name # tools[j].name
    /\ \A i \in 1..Len(tools) : get_tool_definition(tools[i].tool).name = tools[i].name
    /\ (call.op = "register_tool" /\ ~call.raised) =>
          LET name == get_tool_definition(call.tool).name
              entry == [name |-> name, tool |-> call.tool]
              known == {k \in 1..Len(call.pre_tools) : call.pre_tools[k].name = name}
          IN  IF known = {} THEN tools = Append(call.pre_tools, entry)
              ELSE /\ Len(tools) = Len(call.pre_tools)
                   /\ \A k \in 1..Len(tools) :
                         tools[k] = IF k \in known THEN entry ELSE call.pre_tools[k]
    /\ call.op = "execute_tool" =>
          \A k \in 1..Len(tools) :
              tools[k].name = call.name => call.ret.tool = Some(tools[k].tool)
    /\ call.op = "get_tool_definitions" =>
          /\ Len(call.ret) = Len(tools)
          /\ \A k \in 1..Len(tools) : call.ret[k] = [name |-> tools[k].name]

\* the second search tool has replaced the first, which had run before, and
\* a dispatch of the name has run the second
ReplacementDispatched ==
    /\ Executed(SearchToolB)
    /\ Len(tools) = 2
    /\ tools[1] = [name |-> SEARCH, tool |-> SearchToolB]
    /\ call.pre_sources[SearchTool] # <<>>
    /\ call.pre_sources[SearchToolB] = <<>>
    /\ last_sources[SearchToolB] # <<>>

(***************************************************************************)
(* C29: a tool's source set changes only when that tool itself executes or *)
(* when reset_sources clears it: an execute_tool call changes at most the  *)
(* set of the tool it ran, reset_sources only empties sets of registered   *)
(* tools, and register_tool, get_tool_definitions and get_last_sources     *)
(* change no source set.                                                   *)
(***************************************************************************)
SourcesChangedByOwnerOnly ==
    /\ call.op \in {"register_tool", "get_tool_definitions", "get_last_sources"} =>
          last_sources = call.pre_sources
    /\ call.op = "execute_tool" =>
          \A t \in ToolObjs :
              last_sources[t] # call.pre_sources[t] => call.ret.tool = Some(t)
    /\ call.op = "reset_sources" =>
          \A t \in ToolObjs :
              last_sources[t] # call.pre_sources[t] =>
                  /\ last_sources[t] = <<>>
                  /\ \E k \in 1..Len(tools) : tools[k].tool = t

\* the outline tool ran and set its sources while the registered search tool
\* kept the ones it held
OtherToolUntouched ==
    /\ Executed(OutlineTool)
    /\ \E k \in 1..Len(tools) : tools[k].tool = SearchTool
    /\ call.pre_sources[SearchTool] # <<>>
    /\ last_sources[SearchTool] = call.pre_sources[SearchTool]
    /\ call.pre_sources[OutlineTool] = <<>>
    /\ last_sources[OutlineTool] # <<>>

(***************************************************************************)
(* C30: a failure raised while a tool executes leaves execute_tool as that *)
(* same exception, neither the tool nor the registry turns it into a       *)
(* string, and no source set changes; when the store does not fail,        *)
(* execute_tool returns a string and raises nothing.                       *)
(***************************************************************************)
ToolFailurePropagates ==
    (call.op = "execute_tool" /\ call.ret.tool.some) =>
        IF call.store.exc.some
        THEN /\ call.ret.raised
             /\ call.ret.value = call.store.exc.v
             /\ last_sources = call.pre_sources
        ELSE ~call.ret.raised

\* the store failed under the search tool and the failure left execute_tool
StoreFailurePropagated ==
    /\ Executed(SearchTool)
    /\ call.store.exc = Some("connection failed")
    /\ call.ret.raised
    /\ call.ret.value = "connection failed"

(***************************************************************************)
(* Vocabulary of the properties of rounds.                                 *)
(***************************************************************************)
\* the assistant turns of the running message history: one per round entered
AssistantTurns ==
    {k \in 1..Len(F.api_params.messages) : F.api_params.messages[k].role = "assistant"}

\* the correlation ids of a sequence of requests or of dispatches, in order
IdsOf(seq) == [k \in 1..Len(seq) |-> seq[k].id]

\* s is a prefix of t
IsPrefix(s, t) == Len(s) <= Len(t) /\ \A k \in 1..Len(s) : s[k] = t[k]

(***************************************************************************)
(* C25: an invocation that returns has made one model-service call more    *)
(* than the tool rounds it executed: one call for a direct answer, two     *)
(* after one round, three after two rounds.                                *)
(***************************************************************************)
CallsAreRoundsPlusOne ==
    (Invoked /\ F.pc = "returned") =>
        /\ Len(F.calls) = Cardinality(AssistantTurns) + 1
        /\ Len(F.responses) = Len(F.calls)
        /\ F.round = Cardinality(AssistantTurns)
        /\ \A k \in 1..Len(F.dispatched) : F.dispatched[k].call < Len(F.calls)
        /\ Len(F.calls) \in {1, 2, 3}

\* three calls were made for two rounds that both dispatched a tool
ThreeCallsTwoRounds ==
    /\ Invoked
    /\ F.pc = "returned"
    /\ Len(F.calls) = 3
    /\ Cardinality(AssistantTurns) = 2
    /\ \E j, k \in 1..Len(F.dispatched) :
          F.dispatched[j].call = 1 /\ F.dispatched[k].call = 2

(***************************************************************************)
(* C26: within a round the tool-use requests are dispatched one at a time  *)
(* in the order they have in the response: at any moment the dispatches    *)
(* made for a response are an initial part of its requests, the request    *)
(* being dispatched is the next one, and the follow-up call is made only   *)
(* when every request of the round has been dispatched.                    *)
(***************************************************************************)
DispatchInResponseOrder ==
    Invoked =>
        /\ \A n \in 1..Len(F.responses) :
              LET requests == IdsOf(ToolUses(F.responses[n]))
                  made == IdsOf(DispatchesOf(n))
              IN  /\ IsPrefix(made, requests)
                  /\ (made # <<>> /\ Len(F.calls) > n) => made = requests
                  /\ (F.pc = "dispatch" /\ n = Len(F.responses)) =>
                        /\ Len(made) < Len(requests)
                        /\ F.response.v.content[F.i].id = requests[Len(made) + 1]
        /\ \A j, k \in 1..Len(F.dispatched) :
              j < k => F.dispatched[j].call <= F.dispatched[k].call
        /\ F.pc = "dispatch" => Len(F.calls) = Len(F.responses)

\* the first of two requests has been dispatched, the second is being
\* dispatched and no follow-up call has been made
SecondRequestPending ==
    /\ Invoked
    /\ F.pc = "dispatch"
    /\ Len(F.calls) = 1
    /\ Len(ToolUses(F.responses[1])) = 2
    /\ IdsOf(DispatchesOf(1)) = <<ToolUses(F.responses[1])[1].id>>
    /\ F.response.v.content[F.i].id = ToolUses(F.responses[1])[2].id

\* a request of the response to call n named a tool that is not registered
UnknownToolRound(n) ==
    \E k \in 1..Len(F.dispatched) :
        /\ F.dispatched[k].call = n
        /\ \A j \in 1..Len(tools) : tools[j].name # F.dispatched[k].name

(***************************************************************************)
(* C27: a request for a tool that is not registered is not a failed        *)
(* dispatch: its dispatch raises nothing, its result "Tool '<name>' not    *)
(* found" is sent as the request's tool result in the follow-up call, the  *)
(* round is marked failed only by a dispatch that raised, and after a      *)
(* first round with such a request and no raised dispatch a second         *)
(* tool-use response starts a second round.                                *)
(***************************************************************************)
NotFoundIsNoFailure ==
    Invoked =>
        /\ \A k \in 1..Len(F.dispatched) :
              LET d == F.dispatched[k]
              IN  (\A j \in 1..Len(tools) : tools[j].name # d.name) =>
                     /\ ~d.raised
                     /\ d.value = "Tool '" \o d.name \o "' not found"
                     /\ Len(F.calls) > d.call =>
                           LET sent == F.calls[d.call + 1].messages
                               turn == sent[Len(sent)]
                           IN  \E j \in 1..Len(turn.content) :
                                  turn.content[j] =
                                     [type |-> "tool_result", tool_use_id |-> d.id,
                                      content |-> "Tool '" \o d.name \o "' not found"]
        /\ F.tool_failed =>
              \E k \in 1..Len(F.dispatched) :
                  F.dispatched[k].round = F.round /\ F.dispatched[k].raised
        /\ (/\ UnknownToolRound(1)
            /\ \A k \in 1..Len(F.dispatched) : ~F.dispatched[k].raised
            /\ Len(F.responses) >= 2
            /\ F.responses[2].stop_reason = "tool_use") =>
              Cardinality(AssistantTurns) = 2

\* the first round asked only for an unregistered tool and the second
\* round dispatched the search tool
SecondRoundAfterNotFound ==
    /\ Invoked
    /\ Len(F.dispatched) = 2
    /\ F.dispatched[1].name = "lookup_glossary"
    /\ F.dispatched[1].value = "Tool 'lookup_glossary' not found"
    /\ F.dispatched[2].call = 2
    /\ F.dispatched[2].name = SEARCH

(***************************************************************************)
(* C28: provided every model-service call and every tool dispatch returns  *)
(* or raises, every generate_response invocation ends: it returns a string *)
(* or raises the model service's failure, whatever the model answers, a    *)
(* model that asks for a tool in every response included.                  *)
(***************************************************************************)
InvocationEnds ==
    (F.pc \in {"create", "dispatch"}) ~>
        \/ F.pc = "returned" /\ F.result.some
        \/ F.pc = "raised" /\ F.error = Some("APIError")

\* an invocation has returned although every response asked for a tool
ReturnedDespiteToolUse ==
    /\ F.pc = "returned"
    /\ Len(F.responses) = 3
    /\ \A k \in 1..3 : /\ F.responses[k].stop_reason = "tool_use"
                       /\ ToolUses(F.responses[k]) # <<>>

(***************************************************************************)
(* Vocabulary of the properties of concurrent callers.                     *)
(***************************************************************************)
\* the other caller
Other(p) == 3 - p

\* the source sets the tool executions of caller p's query assigned
ProducedBy(p) ==
    IF gen[p].pc = "idle" THEN {}
    ELSE {gen[p].dispatched[k].sources.v :
             k \in {h \in 1..Len(gen[p].dispatched) : gen[p].dispatched[h].sources.some}}

\* caller p's query has returned the list s
Returned(p, s) == qry[p].pc = "done" /\ qry[p].sources = s

\* the turns the call after n rounds of caller p must send: the caller's
\* query, then for every round the response's content as the assistant turn
\* and the results of the round's dispatches as the user turn
RECURSIVE OwnTurns(_, _)
OwnTurns(p, n) ==
    IF n = 0 THEN <<[role |-> "user", content |-> QueryText(p)]>>
    ELSE LET f == gen[p]
             made == SelectSeq(f.dispatched, LAMBDA d : d.call = n)
             results == [k \in 1..Len(made) |->
                            [type |-> "tool_result", tool_use_id |-> made[k].id,
                             content |-> IF made[k].raised
                                         THEN "Tool execution error: " \o made[k].value
                                         ELSE made[k].value]]
         IN  OwnTurns(p, n - 1)
                \o <<[role |-> "assistant", content |-> f.responses[n].content]>>
                \o (IF results = <<>> THEN <<>>
                    ELSE <<[role |-> "user", content |-> results]>>)

(***************************************************************************)
(* C21: two queries that run concurrently against one registry without     *)
(* synchronization are unsafe.  A query that runs while the other caller   *)
(* has not started returns a source set its own tool executions produced,  *)
(* or none when they produced none; with the other caller under way the    *)
(* list a query returns is only known to be empty or a set produced by a   *)
(* tool execution of either query, and the interleaving in which one query *)
(* returns the sources the other produced while the other, whose tool      *)
(* produced them, returns an empty list is reachable.                      *)
(***************************************************************************)
ConcurrentSourcesUnsafe ==
    \A p \in Procs :
        qry[p].pc = "done" =>
            /\ qry[p].sources = <<>>
                  \/ qry[p].sources \in ProducedBy(p) \cup ProducedBy(Other(p))
            /\ qry[Other(p)].pc = "idle" =>
                  IF ProducedBy(p) = {} THEN qry[p].sources = <<>>
                  ELSE qry[p].sources \in ProducedBy(p)

\* caller 1, whose query ran no tool, returned the sources caller 2's tool
\* produced, and caller 2's query completed with an empty source list
SourcesCrossed ==
    /\ gen[1].pc = "returned"
    /\ gen[2].pc = "returned"
    /\ ProducedBy(1) = {}
    /\ ProducedBy(2) # {}
    /\ qry[1].pc = "done"
    /\ qry[1].sources \in ProducedBy(2)
    /\ Returned(2, <<>>)

(***************************************************************************)
(* C22: under any interleaving of two invocations on one generator, every  *)
(* model-service call of an invocation sends that invocation's own turns   *)
(* only: its caller's query, then the assistant turn and the tool-result   *)
(* turn of each of its own rounds; and the generator's base parameters     *)
(* keep their initial value.                                               *)
(***************************************************************************)
OwnTurnsOnly ==
    /\ base_params = [model |-> "claude-model", temperature |-> 0, max_tokens |-> 800]
    /\ \A p \in Procs :
          gen[p].pc # "idle" =>
              /\ \A n \in 1..Len(gen[p].calls) :
                    /\ gen[p].calls[n].messages = OwnTurns(p, n - 1)
                    /\ gen[p].calls[n].model = "claude-model"
                    /\ gen[p].calls[n].temperature = 0
                    /\ gen[p].calls[n].max_tokens = 800
              /\ \A n \in 1..Len(gen[p].responses) :
                    \A k \in 1..Len(gen[p].responses[n].content) :
                        (/\ gen[p].responses[n].content[k].type = "tool_use"
                         /\ gen[Other(p)].pc # "idle") =>
                            \A m \in 1..Len(gen[Other(p)].calls) :
                                \A j \in 1..Len(gen[Other(p)].calls[m].messages) :
                                    LET turn == gen[Other(p)].calls[m].messages[j]
                                    IN  turn.role = "assistant" =>
                                           \A h \in 1..Len(turn.content) :
                                               turn.content[h] #
                                                  gen[p].responses[n].content[k]

\* both callers have made a follow-up call while the other was under way,
\* each after a round with a different tool
BothFollowedUp ==
    /\ gen[1].pc = "create"
    /\ gen[2].pc = "create"
    /\ Len(gen[1].calls) = 2
    /\ Len(gen[2].calls) = 2
    /\ gen[1].dispatched[1].name = SEARCH
    /\ gen[2].dispatched[1].name = OUTLINE

(***************************************************************************)
(* The content search and the outline lookup, run with every argument.     *)
(***************************************************************************)
\* the last call ran the content search and the store answered with matches
SearchFound ==
    /\ Executed(SearchTool)
    /\ ~call.store.exc.some
    /\ ~Truthy(call.store.results.error)
    /\ ~is_empty(call.store.results)

\* what a chunk's header and its source entry call the chunk
Label(meta) ==
    IF MetaLesson(meta).some
    THEN MetaTitle(meta) \o " - Lesson " \o ToString(MetaLesson(meta).v)
    ELSE MetaTitle(meta)

\* the links the store knows
Links ==
    UNION {{b.lesson_link.v : b \in {x \in FormatAnswers.search : x.lesson_link.some}},
           {b.course_link.v : b \in {x \in FormatAnswers.search : x.course_link.some}}}

\* the source entries that name label: the plain text or a markdown link
EntriesFor(label) == {label} \cup {"[" \o label \o "](" \o u \o ")" : u \in Links}

\* C31: after a content search with matches the returned text is the chunks
\* in the backend's order, each under its "[course - Lesson n]" header, and
\* the tool's source set has one entry per chunk, entry k naming chunk k;
\* nothing else is in the set, whatever it held before
SourcePerChunk ==
    SearchFound =>
        LET res == call.store.results
            n == IF Len(res.documents) <= Len(res.metadata)
                 THEN Len(res.documents) ELSE Len(res.metadata)
            held == last_sources[SearchTool]
        IN  /\ ~call.ret.raised
            /\ call.ret.value =
                  Join([k \in 1..n |-> "[" \o Label(res.metadata[k]) \o "]\n"
                                           \o res.documents[k]], "\n\n")
            /\ Len(held) = n
            /\ \A k \in 1..n : held[k] \in EntriesFor(Label(res.metadata[k]))

\* a search matched two chunks of one lesson while the tool held the entries
\* of another search: the set now has the same entry twice and none of the
\* earlier entries
TwoChunksOneSource ==
    /\ SearchFound
    /\ Len(call.store.results.documents) = 2
    /\ Len(last_sources[SearchTool]) = 2
    /\ last_sources[SearchTool][1] = last_sources[SearchTool][2]
    /\ call.pre_sources[SearchTool] # <<>>
    /\ \A j \in 1..Len(call.pre_sources[SearchTool]) :
          call.pre_sources[SearchTool][j] # last_sources[SearchTool][1]

\* the last call ran the content search and the store reported an error
SearchErred ==
    /\ Executed(SearchTool)
    /\ ~call.store.exc.some
    /\ Truthy(call.store.results.error)

\* C32: when the backend search reports an error the content search returns
\* that string as it is, as a normal result, asks the store for no link and
\* leaves every source set as it was before the call
ErrorReturnedVerbatim ==
    SearchErred =>
        /\ ~call.ret.raised
        /\ call.ret.value = call.store.results.error.v
        /\ call.store_calls = <<"search">>
        /\ last_sources = call.pre_sources

\* the store reported an error together with a document while the tool held
\* the entries of an earlier search
ErrorAfterSearch ==
    /\ SearchErred
    /\ call.store.results.documents # <<>>
    /\ call.pre_sources[SearchTool] # <<>>
    /\ call.ret.value = "No course found matching 'XYZ'"

\* the last call ran the content search and the store answered without matches
SearchEmpty ==
    /\ Executed(SearchTool)
    /\ ~call.store.exc.some
    /\ ~Truthy(call.store.results.error)
    /\ is_empty(call.store.results)

\* C33: a content search without matches returns "No relevant content found",
\* then " in course '<course>'" when a course filter was passed to the store,
\* then " in lesson <n>" when a lesson filter was passed to the store, whatever
\* its number, then "."
EveryFilterNamed ==
    SearchEmpty =>
        LET passed == search_args(call.input)
            course == IF passed.course_name.some /\ passed.course_name.v # ""
                      THEN " in course '" \o passed.course_name.v \o "'" ELSE ""
            lesson == IF passed.lesson_number.some
                      THEN " in lesson " \o ToString(passed.lesson_number.v) ELSE ""
        IN  /\ ~call.ret.raised
            /\ call.ret.value = "No relevant content found" \o course \o lesson \o "."

\* the last call ran the outline lookup and the store found the course
OutlineFound ==
    /\ Executed(OutlineTool)
    /\ ~call.store.exc.some
    /\ call.store.outline.some

\* the lessons of the outline the store returned
LessonsOf(outline) == IF "lessons" \in DOMAIN outline THEN outline.lessons ELSE <<>>

\* every lesson the store knows
KnownLessons ==
    UNION {{LessonsOf(b.outline.v)[k] : k \in 1..Len(LessonsOf(b.outline.v))} :
              b \in {x \in FormatAnswers.outline : x.outline.some}}

\* the line "Lesson <n>: <title>" of a lesson, indented as the tool indents
\* it; a lesson without number or title shows "?" or "Untitled"
LineOf(lesson) ==
    "  Lesson "
    \o (IF "lesson_number" \in DOMAIN lesson
        THEN ToString(lesson.lesson_number) ELSE "?")
    \o ": "
    \o (IF "lesson_title" \in DOMAIN lesson THEN lesson.lesson_title ELSE "Untitled")

IsLessonLine(s) == s \in {LineOf(lesson) : lesson \in KnownLessons}

\* the lines "Total Lessons: <k>" for the counts the store can report
TotalLine(k) == "Total Lessons: " \o ToString(k)

IsTotalLine(s) == s \in {TotalLine(k) : k \in 0..4}

\* the lesson lines and the total lines of the last outline, in output order
LessonLines == SelectSeq(outline_parts(call.store.outline.v), IsLessonLine)

TotalLines == SelectSeq(outline_parts(call.store.outline.v), IsTotalLine)

\* the output has one lesson line per lesson of the outline, in its order
AllLessonsListed ==
    /\ ~call.ret.raised
    /\ call.ret.value = Join(outline_parts(call.store.outline.v), "\n")
    /\ LessonLines = [k \in 1..Len(LessonsOf(call.store.outline.v)) |->
                         LineOf(LessonsOf(call.store.outline.v)[k])]

\* C34 as claimed: the output lists every lesson of the outline in order and
\* its "Total Lessons: <k>" line counts the lesson lines emitted
TotalCountsLessonLines ==
    OutlineFound =>
        /\ AllLessonsListed
        /\ TotalLines = <<TotalLine(Len(LessonLines))>>

\* C34: the output lists every lesson of the outline in order, none omitted,
\* merged or summarized, and has one "Total Lessons: <k>" line whose k is the
\* lesson count the backend reported (0 when it reported none); k is the
\* number of lesson lines whenever that count is the length of the lesson list
TotalIsReportedCount ==
    OutlineFound =>
        LET outline == call.store.outline.v
            reported == IF "lesson_count" \in DOMAIN outline
                        THEN outline.lesson_count ELSE 0
        IN  /\ AllLessonsListed
            /\ TotalLines = <<TotalLine(reported)>>
            /\ reported = Len(LessonsOf(outline)) =>
                  TotalLines = <<TotalLine(Len(LessonLines))>>

\* the store reported 3 lessons and listed 2: both lesson lines are in the
\* output under "Total Lessons: 3"
StaleCountShown ==
    /\ OutlineFound
    /\ LessonLines = <<"  Lesson 1: Intro", "  Lesson 2: Advanced">>
    /\ TotalLines = <<"Total Lessons: 3">>

\* the last call ran the outline lookup and the store found no course
OutlineMissed ==
    /\ Executed(OutlineTool)
    /\ ~call.store.exc.some
    /\ ~call.store.outline.some

\* C40: after an outline lookup that finds a course the tool's source set is
\* one entry, the course title, as a markdown link when the outline has a
\* course link, whatever the set held before; a lookup that finds no course
\* returns "No course found matching '<name>'." and does not raise
OutlineSourceIsTitle ==
    /\ OutlineFound =>
          LET outline == call.store.outline.v
              linked == "course_link" \in DOMAIN outline /\ outline.course_link # ""
          IN  last_sources[OutlineTool] =
                 IF linked
                 THEN <<"[" \o outline.title \o "](" \o outline.course_link \o ")">>
                 ELSE <<outline.title>>
    /\ OutlineMissed =>
          /\ ~call.ret.raised
          /\ call.ret.value =
                "No course found matching '" \o call.input.course_name \o "'."

\* the tool held the link of one course and found another course, which has
\* no link: the set is now the bare title of that course
OutlineSourceReplaced ==
    /\ OutlineFound
    /\ call.pre_sources[OutlineTool] = <<"[RAG Course](https://example.com/rag)">>
    /\ last_sources[OutlineTool] = <<"MCP Course">>

(***************************************************************************)
(* The source lists as objects.                                            *)
(***************************************************************************)
\* the content of the list t.last_sources refers to
ListOf(t) == heap.lists[heap.attr[t]]

\* C39: the list get_last_sources returned keeps the entries it had when it
\* was returned, whatever is called later; after reset_sources every
\* registered tool's own list is empty.  (The attributes seen as values are
\* the lists' contents.)
CollectedListKept ==
    /\ heap.collected.some =>
          heap.lists[heap.collected.v.ref] = heap.collected.v.entries
    /\ call.op = "reset_sources" =>
          \A k \in 1..Len(tools) : ListOf(tools[k].tool) = <<>>
    /\ \A t \in ToolObjs : last_sources[t] = ListOf(t)

\* the sources of an execution were collected, then reset: the collected list
\* has its entries, the tools' lists are empty
CollectedThenReset ==
    /\ call.op = "reset_sources"
    /\ call.prev = "get_last_sources"
    /\ heap.collected.some
    /\ heap.collected.v.entries # <<>>
    /\ heap.lists[heap.collected.v.ref] = heap.collected.v.entries
    /\ \A k \in 1..Len(tools) : ListOf(tools[k].tool) = <<>>

(***************************************************************************)
(* The turns, the dispatches and the answer of one invocation.             *)
(***************************************************************************)
\* the roles of the turns sent with call n
RolesOf(n) == [j \in 1..Len(F.calls[n].messages) |-> F.calls[n].messages[j].role]

\* C35: the turns of every model-service call of an invocation alternate
\* between user and assistant, the first is the user's query and the last is
\* a user turn, whatever the tool-requesting responses contain
TurnsAlternate ==
    Invoked =>
        \A n \in 1..Len(F.calls) :
            /\ \A j \in 1..Len(RolesOf(n)) :
                  RolesOf(n)[j] = IF j % 2 = 1 THEN "user" ELSE "assistant"
            /\ F.calls[n].messages[1].content = QueryText(1)
            /\ RolesOf(n)[Len(RolesOf(n))] = "user"

\* the last turn sent with call n
LastTurn(n) == F.calls[n].messages[Len(F.calls[n].messages)]

\* the dispatches made for the request with correlation id
DispatchesFor(id) == {k \in 1..Len(F.dispatched) : F.dispatched[k].id = id}

(***************************************************************************)
(* C36: in every executed tool round (a response after which a follow-up   *)
(* call was made) each tool-use request of the response has been           *)
(* dispatched exactly once, whether the response has one request or        *)
(* several, and when a dispatch of the round raised, every request of the  *)
(* round, the later ones included, has its result in the tool-result turn  *)
(* of the follow-up call.  Nothing is dispatched that no response asked.   *)
(***************************************************************************)
EveryRequestDispatchedOnce ==
    Invoked =>
        /\ \A n \in 1..(Len(F.calls) - 1) :
              LET requests == ToolUses(F.responses[n])
              IN  /\ \A j \in 1..Len(requests) :
                        /\ Cardinality(DispatchesFor(requests[j].id)) = 1
                        /\ \A k \in DispatchesFor(requests[j].id) :
                              F.dispatched[k].call = n
                  /\ (\E k \in 1..Len(F.dispatched) :
                         F.dispatched[k].call = n /\ F.dispatched[k].raised) =>
                        /\ LastTurn(n + 1).role = "user"
                        /\ Len(LastTurn(n + 1).content) = Len(requests)
                        /\ \A j \in 1..Len(requests) :
                              LastTurn(n + 1).content[j].tool_use_id = requests[j].id
        /\ \A k \in 1..Len(F.dispatched) :
              \E j \in 1..Len(ToolUses(F.responses[F.dispatched[k].call])) :
                  ToolUses(F.responses[F.dispatched[k].call])[j].id = F.dispatched[k].id

\* the first of two requests raised, the second was dispatched all the same
\* and returned: the follow-up call carries the error and the second result
SecondDispatchedAfterRaise ==
    /\ Invoked
    /\ Len(F.calls) >= 2
    /\ Len(ToolUses(F.responses[1])) = 2
    /\ Len(F.dispatched) = 2
    /\ F.dispatched[1].raised
    /\ ~F.dispatched[2].raised
    /\ Len(LastTurn(2).content) = 2
    /\ LastTurn(2).content[1].content = "Tool execution error: connection failed"
    /\ LastTurn(2).content[2].content = F.dispatched[2].value

\* the strings a raised dispatch leaves in a tool result
RaisedResults ==
    {"Tool execution error: " \o b.exc.v :
        b \in {x \in GenAnswers.search \cup GenAnswers.outline : x.exc.some}}

(***************************************************************************)
(* C37: a second tool round is entered, and a third model-service call is  *)
(* made, only after a first round in which no dispatch raised: no tool     *)
(* result of the first round is then a "Tool execution error" string of a  *)
(* raised dispatch.                                                        *)
(***************************************************************************)
SecondRoundAfterCleanFirst ==
    (Invoked /\ (F.round = 2 \/ Len(F.calls) = 3)) =>
        /\ \A k \in 1..Len(F.dispatched) :
              F.dispatched[k].call = 1 => ~F.dispatched[k].raised
        /\ \A j \in 2..Len(F.calls[2].messages) :
              F.calls[2].messages[j].role = "user" =>
                  \A h \in 1..Len(F.calls[2].messages[j].content) :
                      F.calls[2].messages[j].content[h].content \notin RaisedResults

\* three calls were made: both dispatches of the first round returned and a
\* dispatch of the second round raised
CleanFirstFailedSecond ==
    /\ Invoked
    /\ Len(F.calls) = 3
    /\ Len(DispatchesOf(1)) = 2
    /\ \A k \in 1..Len(F.dispatched) :
          F.dispatched[k].raised <=> F.dispatched[k].call = 2
    /\ \E k \in 1..Len(F.dispatched) : F.dispatched[k].raised

\* the texts of the text blocks of a response
TextsOf(response) ==
    {response.content[j].text :
        j \in {i \in 1..Len(response.content) : response.content[i].type = "text"}}

\* the assistant turns of the running history, in order
AssistantSeq == SelectSeq(F.api_params.messages, LAMBDA m : m.role = "assistant")

(***************************************************************************)
(* C38: the answer returned is taken from the last response received: it   *)
(* is one of its texts, or the empty string when it has none, and never a  *)
(* text of an earlier, tool-requesting response; the content of every      *)
(* earlier response, its text blocks included, is the content of that      *)
(* round's assistant turn in the history.                                  *)
(***************************************************************************)
AnswerFromLastResponse ==
    (Invoked /\ F.pc = "returned") =>
        /\ F.result.v \in TextsOf(LastResponse) \cup {""}
        /\ F.result.v = "" => TextsOf(LastResponse) = {}
        /\ \A n \in 1..(Len(F.responses) - 1) :
              /\ F.result.v \notin TextsOf(F.responses[n])
              /\ AssistantSeq[n].content = F.responses[n].content
        /\ Len(AssistantSeq) = Len(F.responses) - 1

\* the first response carried a text and a tool request, its round was run
\* and the answer is the text of the next response
EarlierTextNotReturned ==
    /\ Invoked
    /\ F.pc = "returned"
    /\ Len(F.responses) = 2
    /\ TextsOf(F.responses[1]) # {}
    /\ Len(DispatchesOf(1)) = 1
    /\ F.result.v \in TextsOf(F.responses[2])
    /\ \E j \in 1..Len(AssistantSeq[1].content) :
          /\ AssistantSeq[1].content[j].type = "text"
          /\ AssistantSeq[1].content[j].text \in TextsOf(F.responses[1])

=============================================================================
